---- MODULE Spec2Model ----
(***************************************************************************)
(* Greek-law-mcp ingestion core: the PDF extraction strategy selector      *)
(* (scripts/lib/pdf-extractor.ts), the rate-limited source client          *)
(* (scripts/lib/fetcher.ts), the target-list orchestrator                  *)
(* (scripts/ingest.ts) and the corpus full-text orchestrator               *)
(* (scripts/ingest-country-fulltext.ts).                                   *)
(*                                                                         *)
(* Each component has its own specification over its own variables; the    *)
(* variables of the other components keep their initial value.             *)
(***************************************************************************)
EXTENDS Integers, Sequences, FiniteSets, TLC

VARIABLES
    \* ---- extractTextFromPdfBuffer (pdf-extractor.ts) ----
    ex_pc,        \* position in extractTextFromPdfBuffer
    ex_opts,      \* PdfExtractionOptions
    ex_pageCount, \* const pageCount
    ex_pages,     \* the pages of the document in pdfBuffer
    ex_raw,       \* const pdftotextRaw
    ex_cands,     \* const candidates
    ex_warn,      \* const warnings
    ex_calls,     \* external tools invoked so far
    ex_res,       \* what the call returned or threw
    ex_tmp,       \* whether tmpDir exists on disk
    \* ---- source client (fetcher.ts) ----
    f_sinceLast,  \* Date.now() - lastRequestTime, read up to MIN_DELAY_MS
    f_call,       \* per caller: the client call it is in
    f_sinceDone,  \* time since the last HTTP response arrived, read up to MIN_DELAY_MS
    f_lastGap,    \* at the last HTTP request sent: time since the previous response
    f_gateGap,    \* at the last pass of rateLimit: time since the previous pass
    f_awaited,    \* TRUE: every call is awaited before the next one is made
    \* ---- target-list orchestrator (ingest.ts) ----
    t_pc,         \* position in main / ingestTargets
    t_i,          \* number of targets the for loop has finished
    t_cache,      \* extractionCache
    t_fetched,    \* fetched
    t_skipped,    \* skipped
    t_seed,       \* data/seed/<id>.json, per target id
    t_pending,    \* the result whose file is being written
    t_fetchLog,   \* URLs passed to fetchOfficialPdf in this run, in order
    t_last,       \* what the last iteration saw: search rows, row picked
    \* ---- corpus full-text orchestrator (ingest-country-fulltext.ts) ----
    c_pc,         \* position in main
    c_run,        \* how many times main has been started
    c_i,          \* the loop index i
    c_in,         \* inputs, the same in every run: options, overrides,
                  \* and what fetching and extracting each document gives
    c_existingFiles, \* existingFiles
    c_progress,   \* progress.totals
    c_failures,   \* progress.failures
    c_out,        \* data/seed/_country-fulltext/<id>.json, per document id
    c_pending,    \* the record whose file is being written
    c_progressFile, \* totals and failures in the progress file
    c_prev,       \* progress.totals as the previous run left them
    c_fetchLog,   \* URLs passed to fetchOfficialPdf in this run, in order
    c_log,        \* what each iteration of this run ended in, in order
    \* ---- source client, what a call sends and gives back (fetcher.ts) ----
    a_call,       \* the call in progress: function, loop position, attempts
    a_out,        \* what the call returned or threw
    \* ---- segmentation and definitions (parser.ts) ----
    p_pc,         \* which function has run
    p_headings,   \* the input text, as its article headings with their bodies
    p_provisions, \* what parseProvisionsFromOfficialText returned
    p_definitions, \* what extractDefinitionsFromProvisions returned
    \* ---- document isolation and repeated calls (parser.ts) ----
    s_pc,         \* which calls of parseProvisionsFromOfficialText were made
    s_text,       \* the normalized text, as its lines
    s_options,    \* ParseProvisionOptions
    s_lastIndex,  \* ARTICLE_HEADING_LINE_REGEX.lastIndex
    s_first,      \* scope and result of the first call with s_text, s_options
    s_again,      \* scope and result of the second call with s_text, s_options
    s_others,     \* calls with other arguments made in between
    \* ---- country-scope collection (ingest.ts) ----
    k_pc,         \* position in ingestCountryScope
    k_in,         \* options: catalogues, years, maxDocuments
    k_q,          \* (year, catalogue) pairs the loops have passed
    k_collected,  \* collectedRows
    k_failed,     \* failedQueries
    k_counts,     \* queryAttempts, queryErrors
    k_log,        \* how each query ended, in order
    k_out         \* COUNTRY_SCOPE_FILE and the summary returned

exVars == <<ex_pc, ex_opts, ex_pageCount, ex_pages, ex_raw, ex_cands, ex_warn, ex_calls, ex_res, ex_tmp>>

fVars == <<f_sinceLast, f_call, f_sinceDone, f_lastGap, f_gateGap, f_awaited>>

tVars == <<t_pc, t_i, t_cache, t_fetched, t_skipped, t_seed, t_pending, t_fetchLog, t_last>>

cVars == <<c_pc, c_run, c_i, c_in, c_existingFiles, c_progress, c_failures, c_out, c_pending, c_progressFile, c_prev, c_fetchLog, c_log>>

aVars == <<a_call, a_out>>

pVars == <<p_pc, p_headings, p_provisions, p_definitions>>

sVars == <<s_pc, s_text, s_options, s_lastIndex, s_first, s_again, s_others>>

kVars == <<k_pc, k_in, k_q, k_collected, k_failed, k_counts, k_log, k_out>>

vars == <<exVars, fVars, tVars, cVars, aVars, pVars, sVars, kVars>>

notKVars == <<exVars, fVars, tVars, cVars, aVars, pVars, sVars>>

notExVars == <<fVars, tVars, cVars, aVars, pVars, sVars, kVars>>

notFVars == <<exVars, tVars, cVars, aVars, pVars, sVars, kVars>>

notTVars == <<exVars, fVars, cVars, aVars, pVars, sVars, kVars>>

notCVars == <<exVars, fVars, tVars, aVars, pVars, sVars, kVars>>

notAVars == <<exVars, fVars, tVars, cVars, pVars, sVars, kVars>>

notPVars == <<exVars, fVars, tVars, cVars, aVars, sVars, kVars>>

notSVars == <<exVars, fVars, tVars, cVars, aVars, pVars, kVars>>

(***************************************************************************)
(* Text.  A text is held by the character counts the extractor reads from  *)
(* it: len (its length), letters (\p{L}), greek (U+0370-03FF, U+1F00-1FFF),*)
(* latinExt (U+00C0-00FF), headings (matches of ARTICLE_MARKER_REGEX),     *)
(* mojiHeadings (article headings that are present as windows-1253 bytes   *)
(* misread as Latin-1), and noise (characters of the lines normalizeText   *)
(* drops: page numbers, rules, gazette mastheads; mastheads are Greek).    *)
(***************************************************************************)
EmptyText ==
    [len |-> 0, letters |-> 0, greek |-> 0, latinExt |-> 0,
     headings |-> 0, mojiHeadings |-> 0, noise |-> 0]

\* Outputs of pdftotext: letter counts divide 1000, which keeps ratios exact.
RawTexts ==
    { t \in [len : {0, 800, 1200, 5001}, letters : {0, 500, 1000},
             greek : {0, 250, 300, 550}, latinExt : {0, 251},
             headings : {0, 2, 8}, mojiHeadings : {0, 3}, noise : {0, 450}] :
        /\ t.letters <= t.len
        /\ t.greek + t.latinExt <= t.letters
        /\ (t.mojiHeadings > 0 => t.latinExt > 0)
        /\ (t.headings > 0 => t.greek > 0)
        /\ (t.len = 0 => t.noise = 0) }

\* Outputs of tesseract: no Latin-1 residue.
OcrTexts ==
    { t \in RawTexts : t.latinExt = 0 /\ t.noise = 0 /\ t.letters # 500 }

\* normalizeText: the noise lines are dropped, the rest is kept and trimmed.
normalizeText(raw) == [raw EXCEPT !.noise = 0]

\* Length of the raw string, noise lines included.
RawLength(raw) == raw.len + raw.noise

\* decodeWindows1253: every char is cut to its low byte and read as
\* windows-1253: bytes C0-FF become Greek letters, a Greek code point's low
\* byte is no Greek letter any more, ASCII letters are unchanged.
decodeWindows1253(raw) ==
    [len |-> raw.len, letters |-> raw.letters - raw.greek,
     greek |-> raw.latinExt, latinExt |-> 0,
     headings |-> raw.mojiHeadings, mojiHeadings |-> 0, noise |-> raw.noise]

\* Mutant of detectMojibake: every raw text is taken for mojibake.
detectMojibake_Always(raw) == TRUE

\* detectMojibake: latinExtended > 250 && greek < latinExtended / 4
detectMojibake(raw) ==
    LET greek == raw.greek + raw.noise
        latinExtended == raw.latinExt
    IN  latinExtended > 250 /\ 4 * greek < latinExtended

\* assessTextQuality: ratios are exact per-mille integers.
assessTextQuality(text) ==
    [charCount |-> text.len,
     greekRatio |-> IF text.letters > 0 THEN (text.greek * 1000) \div text.letters ELSE 0,
     articleHeadingCount |-> text.headings,
     mojibakeChars |-> text.latinExt]

\* Mutant of isTextUsable: the floor on charCount is not tested.
isTextUsable_NoMinChars(metrics) ==
    IF metrics.articleHeadingCount >= 2 /\ metrics.greekRatio >= 300 THEN TRUE
    ELSE IF metrics.articleHeadingCount >= 8 /\ metrics.greekRatio >= 200 THEN TRUE
    ELSE metrics.charCount > 5000 /\ metrics.greekRatio >= 550

\* isTextUsable
isTextUsable(metrics) ==
    IF metrics.charCount < 1200 THEN FALSE
    ELSE IF metrics.articleHeadingCount >= 2 /\ metrics.greekRatio >= 300 THEN TRUE
    ELSE IF metrics.articleHeadingCount >= 8 /\ metrics.greekRatio >= 200 THEN TRUE
    ELSE metrics.charCount > 5000 /\ metrics.greekRatio >= 550

\* scoreQuality, times 20000:
\*   charCount*(greekRatio+0.05) + articleHeadingCount*4000 - mojibakeRatio*charCount
scoreQuality(metrics) ==
    20 * metrics.charCount * metrics.greekRatio + 1000 * metrics.charCount
      + 80000000 * metrics.articleHeadingCount - 20000 * metrics.mojibakeChars

Candidate(text, method) ==
    [text |-> text, method |-> method, metrics |-> assessTextQuality(text)]

Methods == {"pdftotext", "pdftotext_windows1253", "ocr_tesseract_cli", "ocr_tesseract_js"}

DefaultMaxOcrPages == 35

ExOptions ==
    [enableOcr : BOOLEAN, maxOcrPages : {DefaultMaxOcrPages, 34},
     allowLowQualityFallback : BOOLEAN]

\* readPdfPageCount: the Pages: line of pdfinfo, 0 when pdfinfo fails.
PageCounts == {0, 35, 40}

\* The numbers of pages a document has.
PdfPages == PageCounts \ {0}

NoResult == [kind |-> "none"]

\* Mutant of Returned: the result is labelled with the native method.
Returned_AsNative(cand, warnings) ==
    [kind |-> "ok", text |-> cand.text, method |-> "pdftotext",
     metrics |-> cand.metrics, warnings |-> warnings]

Returned(cand, warnings) ==
    [kind |-> "ok", text |-> cand.text, method |-> cand.method,
     metrics |-> cand.metrics, warnings |-> warnings]

Thrown(reason) == [kind |-> "error", reason |-> reason]

ExInit ==
    /\ ex_pc = "idle"
    /\ ex_opts \in ExOptions
    /\ ex_pageCount = 0
    /\ ex_pages \in PdfPages
    /\ ex_raw = EmptyText
    /\ ex_cands = <<>>
    /\ ex_warn = <<>>
    /\ ex_calls = {}
    /\ ex_res = NoResult
    /\ ex_tmp = FALSE

\* Mutant of ExFinish: the temporary directory is left behind.
ExFinish_KeepsTmp(res) ==
    /\ ex_res' = res
    /\ ex_tmp' = ex_tmp
    /\ ex_pc' = "done"

\* the finally block: fs.rmSync(tmpDir)
ExFinish(res) ==
    /\ ex_res' = res
    /\ ex_tmp' = FALSE
    /\ ex_pc' = "done"

\* mkdtempSync, writeFileSync(pdfPath), readPdfPageCount: the number of
\* pages pdfinfo prints, or 0 when it fails or prints no Pages: line
ExStart ==
    /\ ex_pc = "idle"
    /\ ex_tmp' = TRUE
    /\ \E n \in PageCounts : n \in {0, ex_pages} /\ ex_pageCount' = n
    /\ ex_calls' = ex_calls \cup {"pdfinfo"}
    /\ ex_pc' = "native"
    /\ UNCHANGED <<ex_opts, ex_pages, ex_raw, ex_cands, ex_warn, ex_res>>

\* Mutant of ExNative: the usable native text does not return at once.
ExNative_NoShortCircuit ==
    /\ ex_pc = "native"
    /\ ex_calls' = ex_calls \cup {"pdftotext"}
    /\ \E raw \in RawTexts :
         /\ ex_raw' = raw
         /\ ex_cands' = Append(ex_cands, Candidate(normalizeText(raw), "pdftotext"))
    /\ ex_pc' = "recode"
    /\ UNCHANGED <<ex_opts, ex_pages, ex_pageCount, ex_warn, ex_res, ex_tmp>>

\* extractWithPdftotext, normalizeText, assessTextQuality, the first return
ExNative ==
    /\ ex_pc = "native"
    /\ ex_calls' = ex_calls \cup {"pdftotext"}
    /\ \E raw \in RawTexts :
         LET cand == Candidate(normalizeText(raw), "pdftotext") IN
         /\ ex_raw' = raw
         /\ ex_cands' = Append(ex_cands, cand)
         /\ IF isTextUsable(cand.metrics)
              THEN ExFinish(Returned(cand, ex_warn))
              ELSE ex_pc' = "recode" /\ UNCHANGED <<ex_res, ex_tmp>>
    /\ UNCHANGED <<ex_opts, ex_pages, ex_pageCount, ex_warn>>

\* execFileSync throws (pdftotext, pdftoppm or tesseract failed): the error
\* leaves extractTextFromPdfBuffer through the finally block.
ExToolThrows ==
    /\ ex_pc \in {"native", "ocr"}
    /\ (ex_pc = "ocr" => ex_opts.enableOcr /\ ex_pageCount <= ex_opts.maxOcrPages)
    /\ ex_calls' = ex_calls \cup {IF ex_pc = "native" THEN "pdftotext" ELSE "pdftoppm"}
    /\ ExFinish(Thrown("tool"))
    /\ UNCHANGED <<ex_opts, ex_pages, ex_pageCount, ex_raw, ex_cands, ex_warn>>

\* if (detectMojibake(pdftotextRaw)) { ... }
ExRecode ==
    /\ ex_pc = "recode"
    /\ IF detectMojibake(ex_raw)
         THEN LET cand == Candidate(normalizeText(decodeWindows1253(ex_raw)),
                                    "pdftotext_windows1253") IN
              /\ ex_calls' = ex_calls \cup {"recode"}
              /\ ex_cands' = Append(ex_cands, cand)
              /\ IF isTextUsable(cand.metrics)
                   THEN ExFinish(Returned(cand, ex_warn)) /\ UNCHANGED ex_warn
                   ELSE /\ ex_warn' = Append(ex_warn, "recode_low")
                        /\ ex_pc' = "ocr"
                        /\ UNCHANGED <<ex_res, ex_tmp>>
         ELSE /\ ex_pc' = "ocr"
              /\ UNCHANGED <<ex_calls, ex_cands, ex_warn, ex_res, ex_tmp>>
    /\ UNCHANGED <<ex_opts, ex_pages, ex_pageCount, ex_raw>>

\* Mutant of ExOcr: the page count is not compared with maxOcrPages.
ExOcr_NoPageLimit ==
    /\ ex_pc = "ocr"
    /\ IF ~ex_opts.enableOcr
         THEN /\ ex_warn' = Append(ex_warn, "ocr_disabled")
              /\ ex_pc' = "fallback"
              /\ UNCHANGED <<ex_calls, ex_cands, ex_res, ex_tmp>>
         ELSE \E text \in OcrTexts :
              LET cand == Candidate(normalizeText(text), "ocr_tesseract_cli")
                  w1 == Append(ex_warn, "ocr_noise")
                  w2 == IF isTextUsable(cand.metrics) THEN w1 ELSE Append(w1, "ocr_low")
              IN  /\ ex_calls' = ex_calls \cup {"pdftoppm", "tesseract"}
                  /\ ex_warn' = w2
                  /\ ex_cands' = Append(ex_cands, cand)
                  /\ IF isTextUsable(cand.metrics)
                       THEN ExFinish(Returned(cand, w2))
                       ELSE ex_pc' = "fallback" /\ UNCHANGED <<ex_res, ex_tmp>>
    /\ UNCHANGED <<ex_opts, ex_pages, ex_pageCount, ex_raw>>

\* Mutant of ExOcr: the limit is compared with the pages of the document.
ExOcr_RealPages ==
    /\ ex_pc = "ocr"
    /\ IF ~ex_opts.enableOcr
         THEN /\ ex_warn' = Append(ex_warn, "ocr_disabled")
              /\ ex_pc' = "fallback"
              /\ UNCHANGED <<ex_calls, ex_cands, ex_res, ex_tmp>>
         ELSE IF ex_pages > ex_opts.maxOcrPages
         THEN /\ ex_warn' = Append(ex_warn, "ocr_skipped_pages")
              /\ ex_pc' = "fallback"
              /\ UNCHANGED <<ex_calls, ex_cands, ex_res, ex_tmp>>
         ELSE \E rendered \in BOOLEAN :
              IF ~rendered
                THEN /\ ex_calls' = ex_calls \cup {"pdftoppm"}
                     /\ ex_warn' = Append(ex_warn, "ocr_no_images")
                     /\ ex_pc' = "fallback"
                     /\ UNCHANGED <<ex_cands, ex_res, ex_tmp>>
                ELSE \E hasBinary \in BOOLEAN, text \in OcrTexts :
                     LET ocrMethod == IF hasBinary THEN "ocr_tesseract_cli"
                                      ELSE "ocr_tesseract_js"
                         cand == Candidate(normalizeText(text), ocrMethod)
                         w1 == Append(ex_warn, "ocr_noise")
                         w2 == IF isTextUsable(cand.metrics) THEN w1
                               ELSE Append(w1, "ocr_low")
                     IN  /\ ex_calls' = ex_calls \cup {"pdftoppm", "tesseract"}
                         /\ ex_warn' = w2
                         /\ ex_cands' = Append(ex_cands, cand)
                         /\ IF isTextUsable(cand.metrics)
                              THEN ExFinish(Returned(cand, w2))
                              ELSE ex_pc' = "fallback" /\ UNCHANGED <<ex_res, ex_tmp>>
    /\ UNCHANGED <<ex_opts, ex_pages, ex_pageCount, ex_raw>>

\* if (options.enableOcr) { ... } else { warnings.push('OCR disabled ...') }
ExOcr ==
    /\ ex_pc = "ocr"
    /\ IF ~ex_opts.enableOcr
         THEN /\ ex_warn' = Append(ex_warn, "ocr_disabled")
              /\ ex_pc' = "fallback"
              /\ UNCHANGED <<ex_calls, ex_cands, ex_res, ex_tmp>>
         ELSE IF ex_pageCount > ex_opts.maxOcrPages
         THEN /\ ex_warn' = Append(ex_warn, "ocr_skipped_pages")
              /\ ex_pc' = "fallback"
              /\ UNCHANGED <<ex_calls, ex_cands, ex_res, ex_tmp>>
         ELSE \E rendered \in BOOLEAN :
              IF ~rendered
                THEN /\ ex_calls' = ex_calls \cup {"pdftoppm"}
                     /\ ex_warn' = Append(ex_warn, "ocr_no_images")
                     /\ ex_pc' = "fallback"
                     /\ UNCHANGED <<ex_cands, ex_res, ex_tmp>>
                ELSE \E hasBinary \in BOOLEAN, text \in OcrTexts :
                     LET ocrMethod == IF hasBinary THEN "ocr_tesseract_cli"
                                      ELSE "ocr_tesseract_js"
                         cand == Candidate(normalizeText(text), ocrMethod)
                         w1 == Append(ex_warn, "ocr_noise")
                         w2 == IF isTextUsable(cand.metrics) THEN w1
                               ELSE Append(w1, "ocr_low")
                     IN  /\ ex_calls' = ex_calls \cup {"pdftoppm", "tesseract"}
                         /\ ex_warn' = w2
                         /\ ex_cands' = Append(ex_cands, cand)
                         /\ IF isTextUsable(cand.metrics)
                              THEN ExFinish(Returned(cand, w2))
                              ELSE ex_pc' = "fallback" /\ UNCHANGED <<ex_res, ex_tmp>>
    /\ UNCHANGED <<ex_opts, ex_pages, ex_pageCount, ex_raw>>

\* Mutant of BestCandidate: the first candidate with text is taken, unsorted.
BestCandidate_First(cands) ==
    LET idx == { i \in 1..Len(cands) : cands[i].text.len > 0 } IN
    IF idx = {} THEN 0
    ELSE CHOOSE i \in idx : \A j \in idx : i <= j

\* candidates.filter(text.trim().length > 0).sort(score desc)[0]: the sort is
\* stable, so of the candidates with the highest score the earliest is taken.
BestCandidate(cands) ==
    LET idx == { i \in 1..Len(cands) : cands[i].text.len > 0 } IN
    IF idx = {} THEN 0
    ELSE CHOOSE i \in idx :
           \A j \in idx :
             \/ scoreQuality(cands[i].metrics) > scoreQuality(cands[j].metrics)
             \/ scoreQuality(cands[i].metrics) = scoreQuality(cands[j].metrics) /\ i <= j

\* Mutant of ExFallback: the best candidate is returned whatever the option says.
ExFallback_IgnoresOption ==
    /\ ex_pc = "fallback"
    /\ LET best == BestCandidate(ex_cands) IN
       IF best # 0
         THEN /\ ex_warn' = Append(ex_warn, "low_quality_fallback")
              /\ ExFinish(Returned(ex_cands[best], ex_warn'))
         ELSE /\ ExFinish(Thrown("PDF text quality too low"))
              /\ UNCHANGED ex_warn
    /\ UNCHANGED <<ex_opts, ex_pages, ex_pageCount, ex_raw, ex_cands, ex_calls>>

\* if (options.allowLowQualityFallback) { ... }  throw new Error('PDF text quality too low ...')
ExFallback ==
    /\ ex_pc = "fallback"
    /\ LET best == BestCandidate(ex_cands) IN
       IF ex_opts.allowLowQualityFallback /\ best # 0
         THEN /\ ex_warn' = Append(ex_warn, "low_quality_fallback")
              /\ ExFinish(Returned(ex_cands[best], ex_warn'))
         ELSE /\ ExFinish(Thrown("PDF text quality too low"))
              /\ UNCHANGED ex_warn
    /\ UNCHANGED <<ex_opts, ex_pages, ex_pageCount, ex_raw, ex_cands, ex_calls>>

ExNext ==
    \/ ExStart /\ UNCHANGED notExVars
    \/ ExNative /\ UNCHANGED notExVars
    \/ ExToolThrows /\ UNCHANGED notExVars
    \/ ExRecode /\ UNCHANGED notExVars
    \/ ExOcr /\ UNCHANGED notExVars
    \/ ExFallback /\ UNCHANGED notExVars

(***************************************************************************)
(* The source client, fetcher.ts.  Time is read in steps of TickMs; only   *)
(* differences of times are kept, each up to MIN_DELAY_MS, the largest     *)
(* difference rateLimit distinguishes.                                     *)
(***************************************************************************)
MIN_DELAY_MS == 1200

DefaultMaxRetries == 3

TickMs == 400

NCallers == 2

Callers == 1..NCallers

\* fetch() itself rejects (no response, no status).
NetErr == 0

\* HTTP statuses a response may carry.
Statuses == {NetErr, 200, 404, 429, 500}

\* response.status === 429 || response.status >= 500
Retryable(status) == status = 429 \/ status >= 500

ResponseOk(status) == status \in 200..299

\* Math.pow(2, attempt + 1) * 1000
Backoff(attempt) == (2 ^ (attempt + 1)) * 1000

IdleCall ==
    [pc |-> "idle", attempt |-> 0, sent |-> 0, timer |-> 0, waited |-> <<>>,
     last |-> 0, res |-> "none"]

FActive(c) == f_call[c].pc \in {"gateWait", "inflight", "backoff"}

FInit(awaited) ==
    /\ f_sinceLast = MIN_DELAY_MS      \* let lastRequestTime = 0
    /\ f_call = [c \in Callers |-> IdleCall]
    /\ f_sinceDone = MIN_DELAY_MS
    /\ f_lastGap = MIN_DELAY_MS
    /\ f_gateGap = MIN_DELAY_MS
    /\ f_awaited = awaited

\* fetch(url, ...) is issued: the for loop's body starts.
Send(call) ==
    [call EXCEPT !.pc = "inflight", !.sent = call.sent + 1, !.timer = 0]

\* fetchOfficialPdf / request are entered: await rateLimit(), first half.
\* With elapsed >= MIN_DELAY_MS rateLimit does not wait, stamps
\* lastRequestTime and the first fetch is issued.
FCall(c) ==
    /\ f_call[c].pc \in {"idle", "done"}
    /\ f_awaited => \A d \in Callers : ~FActive(d)
    /\ LET elapsed == f_sinceLast IN
       IF elapsed < MIN_DELAY_MS
         THEN /\ f_call' = [f_call EXCEPT ![c] =
                     [IdleCall EXCEPT !.pc = "gateWait", !.timer = MIN_DELAY_MS - elapsed]]
              /\ UNCHANGED <<f_sinceLast, f_lastGap, f_gateGap>>
         ELSE /\ f_call' = [f_call EXCEPT ![c] = Send(IdleCall)]
              /\ f_sinceLast' = 0
              /\ f_gateGap' = f_sinceLast
              /\ f_lastGap' = f_sinceDone
    /\ UNCHANGED <<f_sinceDone, f_awaited>>

\* rateLimit, second half: the wait is over, lastRequestTime = Date.now(),
\* and the first fetch is issued.
FGatePass(c) ==
    /\ f_call[c].pc = "gateWait"
    /\ f_call[c].timer = 0
    /\ f_call' = [f_call EXCEPT ![c] = Send(@)]
    /\ f_sinceLast' = 0
    /\ f_gateGap' = f_sinceLast
    /\ f_lastGap' = f_sinceDone
    /\ UNCHANGED <<f_sinceDone, f_awaited>>

\* Mutant of FRespond: the retry branch does not test attempt < maxRetries.
FRespond_RetryForever(c) ==
    /\ f_call[c].pc = "inflight"
    /\ \E status \in Statuses :
         LET call == f_call[c] IN
         f_call' = [f_call EXCEPT ![c] =
           IF status = NetErr
             THEN [call EXCEPT !.pc = "done", !.last = status, !.res = "network error"]
           ELSE IF Retryable(status)
             THEN [call EXCEPT !.pc = "backoff", !.last = status,
                               !.timer = Backoff(call.attempt),
                               !.waited = Append(call.waited, Backoff(call.attempt))]
           ELSE IF ~ResponseOk(status)
             THEN [call EXCEPT !.pc = "done", !.last = status, !.res = "HTTP error"]
           ELSE [call EXCEPT !.pc = "done", !.last = status, !.res = "data"]]
    /\ f_sinceDone' = 0
    /\ UNCHANGED <<f_sinceLast, f_lastGap, f_gateGap, f_awaited>>

\* The response of the fetch in flight arrives (or fetch rejects) and the
\* rest of the loop body runs: backoff and continue, throw, or return.
FRespond(c) ==
    /\ f_call[c].pc = "inflight"
    /\ \E status \in Statuses :
         LET call == f_call[c] IN
         f_call' = [f_call EXCEPT ![c] =
           IF status = NetErr
             THEN [call EXCEPT !.pc = "done", !.last = status, !.res = "network error"]
           ELSE IF Retryable(status) /\ call.attempt < DefaultMaxRetries
             THEN [call EXCEPT !.pc = "backoff", !.last = status,
                               !.timer = Backoff(call.attempt),
                               !.waited = Append(call.waited, Backoff(call.attempt))]
           ELSE IF ~ResponseOk(status)
             THEN [call EXCEPT !.pc = "done", !.last = status, !.res = "HTTP error"]
           ELSE [call EXCEPT !.pc = "done", !.last = status, !.res = "data"]]
    /\ f_sinceDone' = 0
    /\ UNCHANGED <<f_sinceLast, f_lastGap, f_gateGap, f_awaited>>

\* await wait(backoff) is over: continue, attempt++, the next fetch is issued.
FRetry(c) ==
    /\ f_call[c].pc = "backoff"
    /\ f_call[c].timer = 0
    /\ f_call' = [f_call EXCEPT ![c] = Send([@ EXCEPT !.attempt = @ + 1])]
    /\ f_lastGap' = f_sinceDone
    /\ UNCHANGED <<f_sinceLast, f_sinceDone, f_gateGap, f_awaited>>

\* TickMs of time pass: setTimeout timers run down (a timer fires at or
\* after its delay), the clock differences grow.
Tick ==
    /\ f_call' = [c \in Callers |->
                    [f_call[c] EXCEPT !.timer = IF @ > TickMs THEN @ - TickMs ELSE 0]]
    /\ f_sinceLast' = IF f_sinceLast + TickMs < MIN_DELAY_MS
                         THEN f_sinceLast + TickMs ELSE MIN_DELAY_MS
    /\ f_sinceDone' = IF f_sinceDone + TickMs < MIN_DELAY_MS
                         THEN f_sinceDone + TickMs ELSE MIN_DELAY_MS
    /\ UNCHANGED <<f_lastGap, f_gateGap, f_awaited>>

FNext ==
    \/ \E c \in Callers : FCall(c) /\ UNCHANGED notFVars
    \/ \E c \in Callers : FGatePass(c) /\ UNCHANGED notFVars
    \/ \E c \in Callers : FRespond(c) /\ UNCHANGED notFVars
    \/ \E c \in Callers : FRetry(c) /\ UNCHANGED notFVars
    \/ Tick /\ UNCHANGED notFVars

(***************************************************************************)
(* The target-list orchestrator, ingest.ts: main, ingestTargets, ingestAct,*)
(* extractActFromPdf, with pickBestSearchResult and buildFekPdfUrl of      *)
(* parser.ts.                                                              *)
(***************************************************************************)
NTargets == 2

\* TARGET_GREEK_ACTS: distinct ids; acts of different numbers issued in the
\* same year, and two consecutive targets that carry the same law number
\* and year (law-4577-2018-nis, law-4577-2018-cii).
TargetAt(i) ==
    [id |-> i, lawNumber |-> 1 + (i \div 2), year |-> 2001]

\* Rows of the search API for a target's query: the act itself, an act of
\* the same number issued in another year, an act of another number. The
\* acts of the targets are published in one gazette issue of their year,
\* so their rows name the same document number.
RowExact(target) ==
    [lawNo |-> target.lawNumber, year |-> target.year, doc |-> 1]

RowOtherYear(target) ==
    [lawNo |-> target.lawNumber, year |-> target.year + 1, doc |-> 10 + target.lawNumber]

RowOtherLaw(target) ==
    [lawNo |-> 0, year |-> target.year, doc |-> 20 + target.lawNumber]

\* searchLegislation(...) resolves: up to two distinct rows, in any order.
SearchRows(target) ==
    LET R == {RowExact(target), RowOtherYear(target), RowOtherLaw(target)} IN
    {<<>>} \cup { <<r>> : r \in R }
           \cup { rq \in { <<r, q>> : r \in R, q \in R } : rq[1] # rq[2] }

\* buildFekPdfUrl: the URL is made of issue group, issue year and document number.
buildFekPdfUrl(row) == <<row.year, row.doc>>

\* The indices kept by rows.filter(r => lawNo === target.lawNumber && year === target.year)
StrictMatches(rows, target) ==
    { k \in 1..Len(rows) : rows[k].lawNo = target.lawNumber /\ rows[k].year = target.year }

\* The indices kept by rows.filter(r => lawNo === target.lawNumber)
NumberMatches(rows, target) ==
    { k \in 1..Len(rows) : rows[k].lawNo = target.lawNumber }

\* Mutant of FirstOf: the last row kept.
FirstOf_Last(rows, kept) ==
    IF kept = {} THEN <<>>
    ELSE <<rows[CHOOSE k \in kept : \A j \in kept : k >= j]>>

\* filtered[0], as a sequence of zero or one rows
FirstOf(rows, kept) ==
    IF kept = {} THEN <<>>
    ELSE <<rows[CHOOSE k \in kept : \A j \in kept : k <= j]>>

\* Mutant of pickBestSearchResult: only a row of the target's number is taken.
pickBestSearchResult_NoFirstRow(rows, target) ==
    IF StrictMatches(rows, target) # {} THEN FirstOf(rows, StrictMatches(rows, target))
    ELSE FirstOf(rows, NumberMatches(rows, target))

\* pickBestSearchResult: <<>> stands for null, <<row>> for a row.
pickBestSearchResult(rows, target) ==
    IF Len(rows) = 0 THEN <<>>
    ELSE IF StrictMatches(rows, target) # {} THEN FirstOf(rows, StrictMatches(rows, target))
    ELSE IF NumberMatches(rows, target) # {} THEN FirstOf(rows, NumberMatches(rows, target))
    ELSE <<rows[1]>>

NoResultReason == "No official result for law number/year in search API"

\* What extractActFromPdf can do with a PDF: fetchOfficialPdf throws,
\* extractTextFromPdfBuffer throws, no provision is parsed, or it returns.
ExtractOutcomes ==
    {"HTTP error", "PDF text quality too low", "No article headings parsed", "ok"}

NoFile == [state |-> "none", url |-> <<0, 0>>, segLaw |-> 0]

NoLast == [i |-> 0, searchFailed |-> FALSE, rows |-> <<>>, best |-> <<>>, outcome |-> "none"]

\* The record of a target left in SEED_DIR by an earlier run, made from
\* the PDF that run resolved.
OldFile(i) == [state |-> "complete", url |-> <<2000, i>>, segLaw |-> TargetAt(i).lawNumber]

\* SEED_DIR before the run: empty, or with the records of an earlier run.
SeedDirs == { [i \in 1..NTargets |-> NoFile], [i \in 1..NTargets |-> OldFile(i)] }

TInit ==
    /\ t_pc = "start"
    /\ t_i = 0
    /\ t_cache = {}
    /\ t_fetched = <<>>
    /\ t_skipped = <<>>
    /\ t_seed \in SeedDirs
    /\ t_pending = NoFile
    /\ t_fetchLog = <<>>
    /\ t_last = NoLast

TIdle ==
    /\ t_pc = "off"
    /\ t_i = 0
    /\ t_cache = {}
    /\ t_fetched = <<>>
    /\ t_skipped = <<>>
    /\ t_seed = [i \in 1..NTargets |-> NoFile]
    /\ t_pending = NoFile
    /\ t_fetchLog = <<>>
    /\ t_last = NoLast

MaxRows == 3

\* Rows a search can return for a target besides the three of SearchRows: a
\* second row of the act itself (another document of the same issue year),
\* a second row of the number in another year, a row of the number without
\* an issue date (year 0 stands for NaN).
PickRows(target) ==
    { RowExact(target), RowOtherYear(target), RowOtherLaw(target),
      [lawNo |-> target.lawNumber, year |-> target.year, doc |-> 2],
      [lawNo |-> target.lawNumber, year |-> target.year + 2, doc |-> 30 + target.lawNumber],
      [lawNo |-> target.lawNumber, year |-> 0, doc |-> 40 + target.lawNumber] }

\* pickBestSearchResult is called with any list of at most MaxRows rows.
TInitPick ==
    /\ t_pc = "pick"
    /\ t_i = 0
    /\ t_cache = {}
    /\ t_fetched = <<>>
    /\ t_skipped = <<>>
    /\ t_seed = [i \in 1..NTargets |-> NoFile]
    /\ t_pending = NoFile
    /\ t_fetchLog = <<>>
    /\ \E i \in 1..NTargets :
          \E rows \in UNION { [1..n -> PickRows(TargetAt(i))] : n \in 0..MaxRows } :
              t_last = [NoLast EXCEPT !.i = i, !.rows = rows]

\* const best = pickBestSearchResult(rows, target)
TPick ==
    /\ t_pc = "pick"
    /\ t_last' = [t_last EXCEPT !.best = pickBestSearchResult(t_last.rows, TargetAt(t_last.i)),
                                !.outcome = "picked"]
    /\ t_pc' = "picked"
    /\ UNCHANGED <<t_i, t_cache, t_fetched, t_skipped, t_seed, t_pending, t_fetchLog>>

PickNext == TPick /\ UNCHANGED notTVars

\* main: parseArgs, mkdirSync, new Map(), ingestTargets is entered.
TStart ==
    /\ t_pc = "start"
    /\ t_pc' = "loop"
    /\ t_i' = 0
    /\ t_cache' = {}
    /\ t_fetched' = <<>>
    /\ t_skipped' = <<>>
    /\ t_fetchLog' = <<>>
    /\ UNCHANGED <<t_seed, t_pending, t_last>>

\* Mutant of TSkip: the catch block rethrows, ingestTargets is left.
TSkip_Abort(target, reason) ==
    /\ t_pc' = "aborted"
    /\ UNCHANGED <<t_skipped, t_i, t_pending, t_seed, t_fetched>>

\* Mutant of TSkip: the record file of the target is removed.
TSkip_RemovesFile(target, reason) ==
    /\ t_skipped' = Append(t_skipped, [id |-> target.id, reason |-> reason])
    /\ t_seed' = [t_seed EXCEPT ![target.id] = NoFile]
    /\ t_i' = t_i + 1
    /\ t_pc' = "loop"
    /\ UNCHANGED <<t_pending, t_fetched>>

\* Mutant of TSkip: the entry is pushed with an empty reason.
TSkip_NoReason(target, reason) ==
    /\ t_skipped' = Append(t_skipped, [id |-> target.id, reason |-> ""])
    /\ t_i' = t_i + 1
    /\ t_pc' = "loop"
    /\ UNCHANGED <<t_pending, t_seed, t_fetched>>

\* skipped.push({id, law_number, year, reason}); the loop goes on.
TSkip(target, reason) ==
    /\ t_skipped' = Append(t_skipped, [id |-> target.id, reason |-> reason])
    /\ t_i' = t_i + 1
    /\ t_pc' = "loop"
    /\ UNCHANGED <<t_pending, t_seed, t_fetched>>

\* fs.writeFileSync(outFile, ...) has opened and truncated the file.
TBeginWrite(target, url, extracted) ==
    /\ t_pending' = [state |-> "complete", url |-> url, segLaw |-> extracted.segLaw]
    /\ t_seed' = [t_seed EXCEPT ![target.id] = [t_pending' EXCEPT !.state = "partial"]]
    /\ t_pc' = "writing"
    /\ UNCHANGED <<t_skipped, t_i, t_fetched>>

\* extractionCache.get(baseAct.url)
TCacheLookup(url) == { e \in t_cache : e.url = url }

\* One iteration of the for loop up to the write: ingestAct (searchLegislation,
\* pickBestSearchResult, the cache, extractActFromPdf) and the catch block.
TIterate ==
    /\ t_pc = "loop"
    /\ t_i < NTargets
    /\ LET target == TargetAt(t_i + 1) IN
       \/ \* searchLegislation throws
          /\ t_last' = [NoLast EXCEPT !.i = t_i + 1, !.searchFailed = TRUE,
                                      !.outcome = "API error"]
          /\ TSkip(target, "API error")
          /\ UNCHANGED <<t_cache, t_fetchLog>>
       \/ \E rows \in SearchRows(target) :
            LET best == pickBestSearchResult(rows, target)
                last == [NoLast EXCEPT !.i = t_i + 1, !.rows = rows, !.best = best]
            IN
            IF best = <<>>
              THEN /\ t_last' = [last EXCEPT !.outcome = NoResultReason]
                   /\ TSkip(target, NoResultReason)
                   /\ UNCHANGED <<t_cache, t_fetchLog>>
              ELSE LET url == buildFekPdfUrl(best[1])
                       cached == TCacheLookup(url)
                   IN
                   IF cached # {}
                     THEN /\ t_last' = [last EXCEPT !.outcome = "cached"]
                          /\ TBeginWrite(target, url, CHOOSE e \in cached : TRUE)
                          /\ UNCHANGED <<t_cache, t_fetchLog>>
                     ELSE \E outcome \in ExtractOutcomes :
                          /\ t_last' = [last EXCEPT !.outcome = outcome]
                          /\ t_fetchLog' = Append(t_fetchLog, url)
                          /\ IF outcome = "ok"
                               THEN LET extracted == [url |-> url, segLaw |-> target.lawNumber] IN
                                    /\ t_cache' = t_cache \cup {extracted}
                                    /\ TBeginWrite(target, url, extracted)
                               ELSE /\ TSkip(target, outcome)
                                    /\ UNCHANGED t_cache

\* writeFileSync returns; fetched.push({...}); the loop goes on.
TWriteDone ==
    /\ t_pc = "writing"
    /\ t_seed' = [t_seed EXCEPT ![t_i + 1] = t_pending]
    /\ t_fetched' = Append(t_fetched, [id |-> t_i + 1, url |-> t_pending.url])
    /\ t_pending' = NoFile
    /\ t_i' = t_i + 1
    /\ t_pc' = "loop"
    /\ UNCHANGED <<t_cache, t_skipped, t_fetchLog, t_last>>

\* ingestTargets returns; main writes the meta file and prints the report.
TFinish ==
    /\ t_pc = "loop"
    /\ t_i = NTargets
    /\ t_pc' = "done"
    /\ UNCHANGED <<t_i, t_cache, t_fetched, t_skipped, t_seed, t_pending, t_fetchLog, t_last>>


(***************************************************************************)
(* The corpus full-text orchestrator, ingest-country-fulltext.ts: main,    *)
(* enrichFromPdf, loadTargetOverrides, writeProgress.                      *)
(***************************************************************************)
NDocs == 3

MaxRuns == 2

\* candidates[i - 1]: distinct ids; two consecutive documents may be
\* printed in the same gazette issue and carry the same PDF URL.
CandidateAt(i) == [id |-> i, url |-> (i \div 2) + 1]

\* What fetchOfficialPdf, extractTextFromPdfBuffer and
\* parseProvisionsFromOfficialText give for a document: a text with article
\* provisions, a text without any, or an error thrown by the fetch or by
\* the extraction.
EnrichOutcomes ==
    {"articles", "no headings", "HTTP error", "PDF text quality too low"}

NoRecord == [state |-> "none", from |-> "none", kind |-> "none", provisions |-> <<>>]

ZeroTotals ==
    [candidate_documents |-> 0, existing_output_files |-> 0, attempted |-> 0,
     written |-> 0, skipped_existing |-> 0, from_target_override |-> 0,
     from_pdf_extraction |-> 0, with_article_provisions |-> 0,
     with_fulltext_fallback_provision |-> 0, failed |-> 0]

\* The progress file before any run has written it.
NoSnapshot == [totals |-> ZeroTotals, failures |-> <<>>]

\* extracted.text: extractTextFromPdfBuffer returns a normalized text, which
\* has no white space around it, and never an empty one.
ExtractedText == [chars |-> 1200, padding |-> 0]

\* text.trim()
Trim(text) == [chars |-> text.chars - text.padding, padding |-> 0]

\* A provision parsed under an article heading.
ArticleProvision(section) ==
    [provision_ref |-> <<"Art.", section>>, section |-> section,
     content |-> [chars |-> 400, padding |-> 0]]

\* parseProvisionsFromOfficialText(extracted.text)
ParsedProvisions(outcome) ==
    IF outcome = "articles" THEN <<ArticleProvision("1"), ArticleProvision("2")>>
    ELSE <<>>

\* Mutant of buildFulltextFallbackProvision: it always returns null.
buildFulltextFallbackProvision_Null(text) == <<>>

\* fallback ? [fallback] : [] for buildFulltextFallbackProvision(text)
buildFulltextFallbackProvision(text) ==
    LET normalized == Trim(text) IN
    IF normalized.chars = 0 THEN <<>>
    ELSE << [provision_ref |-> <<"Art.", "0">>, section |-> "0", content |-> normalized] >>

\* enrichFromPdf once the PDF is fetched and its text extracted: the
\* provisions of the record it returns.
enrichFromPdf(outcome) ==
    LET provisions == ParsedProvisions(outcome) IN
    IF Len(provisions) = 0 THEN buildFulltextFallbackProvision(ExtractedText)
    ELSE provisions

\* targets.get(doc.id).provisions: loadTargetOverrides keeps only seed
\* records with at least one provision.
OverrideProvisions == <<ArticleProvision("1")>>

\* const fallbackOnly = ...
fallbackOnly(provisions) ==
    /\ Len(provisions) = 1
    /\ provisions[1].provision_ref = <<"Art.", "0">>
    /\ provisions[1].section = "0"

\* Which of with_article_provisions, with_fulltext_fallback_provision the
\* record is counted in.
CKind(provisions) ==
    IF Len(provisions) = 0 THEN "none"
    ELSE IF fallbackOnly(provisions) THEN "fulltext"
    ELSE "articles"

CInputs ==
    [force : BOOLEAN, statusEvery : {1, 2}, targets : {{}, {1}},
     enrich : [1..NDocs -> EnrichOutcomes]]

\* The output directory before the first run: empty, or holding the record
\* of the second candidate from an earlier pass.
OutputDirs ==
    { [id \in 1..NDocs |-> NoRecord],
      [id \in 1..NDocs |->
          IF id = 2 THEN [state |-> "complete", from |-> "pdf", kind |-> "articles",
                          provisions |-> ParsedProvisions("articles")]
          ELSE NoRecord] }

CInit ==
    /\ c_pc = "start"
    /\ c_run = 1
    /\ c_i = 0
    /\ c_in \in CInputs
    /\ c_existingFiles = {}
    /\ c_progress = ZeroTotals
    /\ c_failures = <<>>
    /\ c_out \in OutputDirs
    /\ c_pending = NoRecord
    /\ c_progressFile = NoSnapshot
    /\ c_prev = ZeroTotals
    /\ c_fetchLog = <<>>
    /\ c_log = <<>>

CIdle ==
    /\ c_pc = "off"
    /\ c_run = 1
    /\ c_i = 0
    /\ c_in = [force |-> FALSE, statusEvery |-> 1, targets |-> {},
               enrich |-> [id \in 1..NDocs |-> "articles"]]
    /\ c_existingFiles = {}
    /\ c_progress = ZeroTotals
    /\ c_failures = <<>>
    /\ c_out = [id \in 1..NDocs |-> NoRecord]
    /\ c_pending = NoRecord
    /\ c_progressFile = NoSnapshot
    /\ c_prev = ZeroTotals
    /\ c_fetchLog = <<>>
    /\ c_log = <<>>

\* Mutant of ReadOutputDir: the directory is taken to be empty.
ReadOutputDir_Empty(out) == {}

\* fs.readdirSync(OUTPUT_DIR) filtered to *.json, the suffix removed.
ReadOutputDir(out) == { id \in DOMAIN out : out[id].state # "none" }

\* main up to the loop: the candidates, the overrides, existingFiles and
\* the zeroed progress report.
CStart ==
    /\ c_pc = "start"
    /\ c_existingFiles' = ReadOutputDir(c_out)
    /\ c_progress' = [ZeroTotals EXCEPT !.candidate_documents = NDocs,
                          !.existing_output_files = Cardinality(ReadOutputDir(c_out))]
    /\ c_failures' = <<>>
    /\ c_fetchLog' = <<>>
    /\ c_log' = <<>>
    /\ c_i' = 0
    /\ c_pc' = "loop"
    /\ UNCHANGED <<c_run, c_in, c_out, c_pending, c_progressFile, c_prev>>

\* Mutant of CStatus: the test is made on i instead of i + 1.
CStatus_OffByOne(totals, failures) ==
    c_progressFile' = IF c_i % c_in.statusEvery = 0
                        THEN [totals |-> totals, failures |-> failures]
                        ELSE c_progressFile

\* if ((i + 1) % options.statusEvery === 0) writeProgress(progress)
CStatus(totals, failures) ==
    c_progressFile' = IF (c_i + 1) % c_in.statusEvery = 0
                        THEN [totals |-> totals, failures |-> failures]
                        ELSE c_progressFile

\* Mutant of CSkips: the force flag is not looked at.
CSkips_IgnoreForce(doc) == doc.id \in c_existingFiles

\* if (!options.force && existingFiles.has(doc.id))
CSkips(doc) == ~c_in.force /\ doc.id \in c_existingFiles

\* Mutant of TargetsHas: no candidate is taken from the overrides.
TargetsHas_Never(doc) == FALSE

\* targets.has(doc.id)
TargetsHas(doc) == doc.id \in c_in.targets

\* The entry of c_log for the candidate of this iteration.
CLogged(doc, state, from) == Append(c_log, [id |-> doc.id, state |-> state, from |-> from])

\* The branch that skips a document whose file existed when the run began.
CSkipExisting ==
    /\ c_pc = "loop"
    /\ c_i < NDocs
    /\ CSkips(CandidateAt(c_i + 1))
    /\ c_progress' = [c_progress EXCEPT !.skipped_existing = @ + 1]
    /\ CStatus(c_progress', c_failures)
    /\ c_log' = CLogged(CandidateAt(c_i + 1), "skipped", "none")
    /\ c_i' = c_i + 1
    /\ UNCHANGED <<c_pc, c_run, c_in, c_existingFiles, c_failures, c_out, c_pending, c_prev, c_fetchLog>>

\* Mutant of CCounted: attempted is not incremented.
CCounted_Unattempted(totals, from, kind) ==
    [totals EXCEPT
       !.from_target_override = @ + (IF from = "override" THEN 1 ELSE 0),
       !.from_pdf_extraction = @ + (IF from = "pdf" THEN 1 ELSE 0),
       !.with_article_provisions = @ + (IF kind = "articles" THEN 1 ELSE 0),
       !.with_fulltext_fallback_provision = @ + (IF kind = "fulltext" THEN 1 ELSE 0)]

\* The counters of the try block for a record of the given origin and kind.
CCounted(totals, from, kind) ==
    [totals EXCEPT
       !.attempted = @ + 1,
       !.from_target_override = @ + (IF from = "override" THEN 1 ELSE 0),
       !.from_pdf_extraction = @ + (IF from = "pdf" THEN 1 ELSE 0),
       !.with_article_provisions = @ + (IF kind = "articles" THEN 1 ELSE 0),
       !.with_fulltext_fallback_provision = @ + (IF kind = "fulltext" THEN 1 ELSE 0)]

\* fs.writeFileSync(outPath, ...) has opened and truncated the file.
CBeginWrite(doc, from, provisions) ==
    LET record == [state |-> "complete", from |-> from, kind |-> CKind(provisions),
                   provisions |-> provisions]
    IN
    /\ c_progress' = CCounted(c_progress, from, record.kind)
    /\ c_pending' = record
    /\ c_out' = [c_out EXCEPT ![doc.id] = [record EXCEPT !.state = "partial"]]
    /\ c_pc' = "writing"
    /\ UNCHANGED <<c_i, c_failures, c_progressFile, c_log>>

\* catch: failed++, failures.push({id, url, reason}); then the status write.
CCatch(doc, reason) ==
    /\ c_progress' = [c_progress EXCEPT !.attempted = @ + 1, !.failed = @ + 1]
    /\ c_failures' = Append(c_failures, [id |-> doc.id, url |-> doc.url, reason |-> reason])
    /\ CStatus(c_progress', c_failures')
    /\ c_log' = CLogged(doc, "failed", "pdf")
    /\ c_i' = c_i + 1
    /\ c_pc' = "loop"
    /\ UNCHANGED <<c_out, c_pending>>

\* One iteration for a document that is not skipped, up to the write:
\* the override or enrichFromPdf, the counters, the catch block.
CAttempt ==
    /\ c_pc = "loop"
    /\ c_i < NDocs
    /\ LET doc == CandidateAt(c_i + 1) IN
       /\ ~CSkips(doc)
       /\ IF TargetsHas(doc)
            THEN /\ CBeginWrite(doc, "override", OverrideProvisions)
                 /\ UNCHANGED c_fetchLog
            ELSE LET outcome == c_in.enrich[doc.id] IN
                 /\ c_fetchLog' = Append(c_fetchLog, doc.url)
                 /\ IF outcome \in {"articles", "no headings"}
                      THEN CBeginWrite(doc, "pdf", enrichFromPdf(outcome))
                      ELSE CCatch(doc, outcome)
    /\ UNCHANGED <<c_run, c_in, c_existingFiles, c_prev>>

\* writeFileSync returns; written++; then the status write.
CWriteDone ==
    /\ c_pc = "writing"
    /\ c_out' = [c_out EXCEPT ![c_i + 1] = c_pending]
    /\ c_pending' = NoRecord
    /\ c_progress' = [c_progress EXCEPT !.written = @ + 1]
    /\ CStatus(c_progress', c_failures)
    /\ c_log' = CLogged(CandidateAt(c_i + 1), "written", c_pending.from)
    /\ c_i' = c_i + 1
    /\ c_pc' = "loop"
    /\ UNCHANGED <<c_run, c_in, c_existingFiles, c_failures, c_prev, c_fetchLog>>

\* After the loop: the final writeProgress and the report.
CFinish ==
    /\ c_pc = "loop"
    /\ c_i = NDocs
    /\ c_progressFile' = [totals |-> c_progress, failures |-> c_failures]
    /\ c_pc' = "done"
    /\ UNCHANGED <<c_run, c_i, c_in, c_existingFiles, c_progress, c_failures, c_out, c_pending, c_prev, c_fetchLog, c_log>>

\* The process is terminated: what it held in memory is gone, the files stay.
CKill ==
    /\ c_pc \in {"loop", "writing"}
    /\ c_pc' = "killed"
    /\ c_pending' = NoRecord
    /\ UNCHANGED <<c_run, c_i, c_in, c_existingFiles, c_progress, c_failures, c_out, c_progressFile, c_prev, c_fetchLog, c_log>>

\* main is started again over the same inputs and the same output directory.
CRerun ==
    /\ c_pc \in {"done", "killed"}
    /\ c_run < MaxRuns
    /\ c_run' = c_run + 1
    /\ c_prev' = c_progress
    /\ c_pc' = "start"
    /\ UNCHANGED <<c_i, c_in, c_existingFiles, c_progress, c_failures, c_out, c_pending, c_progressFile, c_fetchLog, c_log>>


(***************************************************************************)
(* The source client by what it sends and gives back: the loop of          *)
(* fetchOfficialPdf and request, the decoding in request, and              *)
(* searchLegislation / getDocumentEntityById.  Time is left to the model   *)
(* of rateLimit above.                                                     *)
(***************************************************************************)
ErrorBodyChars == 200

Min(a, b) == IF a < b THEN a ELSE b

ClientFns == {"fetchOfficialPdf", "searchLegislation", "getDocumentEntityById"}

\* A response body: whether reading it succeeds, its length in characters,
\* what JSON.parse makes of it (not JSON, the value null, an object), the
\* object's status member and what its data member holds.
Bodies ==
    { b \in [readable : BOOLEAN, len : {0, 150, 201},
             json : {"invalid", "null", "object"},
             status : {"absent", "ok", "error"},
             data : {"absent", "rows", "null", "invalid"}] :
        /\ b.len = 0 => b.json = "invalid"
        /\ b.json # "object" => b.status = "absent" /\ b.data = "absent" }

NoBody ==
    [readable |-> FALSE, len |-> 0, json |-> "invalid", status |-> "absent", data |-> "absent"]

NoOut == [kind |-> "none", type |-> "none", status |-> 0, chars |-> 0, data |-> "none"]

\* throw new Error(...)
Throws(type) == [NoOut EXCEPT !.kind = "error", !.type = type]

\* throw new Error(`HTTP ${response.status} for ${url}: ${text.slice(0, 200)}`)
HttpError(status, textLen) ==
    [NoOut EXCEPT !.kind = "error", !.type = "HTTP", !.status = status,
                  !.chars = Min(textLen, ErrorBodyChars)]

\* fetchOfficialPdf below the retry branch: the error or the buffer.
pdfResult(status, body) ==
    IF ~ResponseOk(status)
      THEN HttpError(status, IF body.readable THEN body.len ELSE 0)
    ELSE IF ~body.readable THEN Throws("body read")
    ELSE [NoOut EXCEPT !.kind = "buffer", !.status = status]

\* request below the retry branch: the error or the envelope
\* {status, message, data, parsedData}.
request(status, body) ==
    IF ~body.readable THEN Throws("body read")
    ELSE IF ~ResponseOk(status) THEN HttpError(status, body.len)
    ELSE IF body.json = "invalid" THEN Throws("Non-JSON response")
    ELSE IF body.json = "null" THEN Throws("TypeError")
    ELSE IF body.data = "invalid" THEN Throws("Invalid nested JSON payload")
    ELSE [NoOut EXCEPT !.kind = "envelope",
                       !.type = IF body.status = "ok" THEN "ok" ELSE "error",
                       !.status = status,
                       !.data = IF body.data = "absent" THEN "empty" ELSE body.data]

\* Mutant of apiRows: the envelope's status is not looked at.
apiRows_AnyStatus(result) ==
    IF result.kind # "envelope" THEN result
    ELSE [result EXCEPT !.kind = "rows", !.type = "none",
                        !.data = IF result.data = "null" THEN "empty" ELSE result.data]

\* searchLegislation / getDocumentEntityById after await request(...):
\* throw on a status other than 'ok', else result.parsedData ?? [].
apiRows(result) ==
    IF result.kind # "envelope" THEN result
    ELSE IF result.type # "ok" THEN Throws("API error")
    ELSE [result EXCEPT !.kind = "rows", !.type = "none",
                        !.data = IF result.data = "null" THEN "empty" ELSE result.data]

NoCall ==
    [pc |-> "idle", fn |-> "none", attempt |-> 0, sent |-> 0, waited |-> <<>>,
     status |-> 0, body |-> NoBody]

AInit ==
    /\ a_call = NoCall
    /\ a_out = NoOut

AIdle ==
    /\ a_call = [NoCall EXCEPT !.pc = "off"]
    /\ a_out = NoOut

\* A client function is called: rateLimit, then the first fetch is issued.
ACall ==
    /\ a_call.pc \in {"idle", "done"}
    /\ \E fn \in ClientFns :
         a_call' = [NoCall EXCEPT !.pc = "inflight", !.fn = fn, !.sent = 1]
    /\ a_out' = NoOut

\* The response arrives (or fetch rejects) and the rest of the loop body
\* runs: backoff and continue, throw, or return.
ARespond ==
    /\ a_call.pc = "inflight"
    /\ \/ /\ a_call' = [a_call EXCEPT !.pc = "done", !.status = NetErr, !.body = NoBody]
          /\ a_out' = Throws("fetch failed")
       \/ \E status \in Statuses \ {NetErr}, body \in Bodies :
            IF Retryable(status) /\ a_call.attempt < DefaultMaxRetries
              THEN /\ a_call' = [a_call EXCEPT !.pc = "backoff", !.status = status,
                                   !.waited = Append(@, Backoff(a_call.attempt))]
                   /\ a_out' = a_out
              ELSE /\ a_call' = [a_call EXCEPT !.pc = "done", !.status = status, !.body = body]
                   /\ a_out' = IF a_call.fn = "fetchOfficialPdf"
                                 THEN pdfResult(status, body)
                                 ELSE apiRows(request(status, body))

\* await wait(backoff) is over: continue, attempt++, the next fetch is issued.
ARetry ==
    /\ a_call.pc = "backoff"
    /\ a_call' = [a_call EXCEPT !.pc = "inflight", !.attempt = @ + 1, !.sent = @ + 1]
    /\ a_out' = a_out

ANext ==
    \/ ACall /\ UNCHANGED notAVars
    \/ ARespond /\ UNCHANGED notAVars
    \/ ARetry /\ UNCHANGED notAVars

(***************************************************************************)
(* Segmentation and definitions, parser.ts: parseProvisionsFromOfficialText *)
(* with dedupeAndSortProvisions, and extractDefinitionsFromProvisions.      *)
(* A text is given by the article headings findArticleHeadings finds in    *)
(* the document scope, each with the body that follows it.                 *)
(***************************************************************************)
MaxHeadings == 3

MinBodyLength == 40

DefinitionCap == 100

MinDefinitionLength == 4

\* heading.section after normalizeSectionToken: digits and an optional
\* letter suffix (suf 0: none, 1: a letter), as in "2" and "2Α"; zeros
\* counts leading zeros, as in "01".
Sections == [num : {1, 2}, suf : {0, 1}, zeros : {0}] \ {[num |-> 1, suf |-> 1, zeros |-> 0]}

\* A line of a body that matches the quoted-term pattern: the quoted term
\* after normalizeWhitespace ("" for a term of blanks) and the text after
\* the separator with its normalized length.
DefLine(term, text, len) == [term |-> term, text |-> text, len |-> len]

\* Bodies after normalizeProvisionBody: the length of the body, the length
\* of its whitespace-normalized form, a tag telling different texts apart,
\* whether title or first 200 characters name definitions, and its
\* quoted-term lines in order.
ProvisionBodies ==
    { [len |-> 39, nlen |-> 39, tag |-> "short", isDefs |-> FALSE, lines |-> <<>>],
      [len |-> 40, nlen |-> 40, tag |-> "a", isDefs |-> FALSE,
       lines |-> <<DefLine("controller", "not in a definitions article", 28)>>],
      [len |-> 60, nlen |-> 40, tag |-> "b", isDefs |-> FALSE, lines |-> <<>>],
      [len |-> 60, nlen |-> 60, tag |-> "c", isDefs |-> TRUE,
       lines |-> <<DefLine("controller", "the entity", 10),
                   DefLine("processor", "abc", 3)>>],
      [len |-> 60, nlen |-> 58, tag |-> "d", isDefs |-> TRUE,
       lines |-> <<DefLine("", "a quoted term of blanks", 23),
                   DefLine("Controller", "another entity", 14),
                   DefLine("processor", "the agent", 9)>>],
      [len |-> 80, nlen |-> 80, tag |-> "e", isDefs |-> TRUE,
       lines |-> <<DefLine("processor", "the agent", 9),
                   DefLine("Processor", "the other agent", 15)>>] }

Headings == [section : Sections, body : ProvisionBodies]

\* All texts of at most MaxHeadings headings.
Texts == UNION { [1..n -> Headings] : n \in 0..MaxHeadings }

\* normalizeWhitespace(content).length
normalizeWhitespaceLength(content) == content.nlen

\* term.toLocaleLowerCase('el')
toLocaleLowerCase(term) ==
    CASE term = "Controller" -> "controller"
      [] term = "Processor" -> "processor"
      [] OTHER -> term

\* Mutant of ParsedFrom: no minimum body length.
ParsedFrom_NoMinimum(headings) ==
    [k \in 1..Len(headings) |->
        [provision_ref |-> <<"Art.", headings[k].section>>,
         section |-> headings[k].section,
         content |-> headings[k].body]]

\* The loop of parseProvisionsFromOfficialText: a provision per heading
\* whose body has at least 40 characters.
ParsedFrom(headings) ==
    LET kept == SelectSeq(headings, LAMBDA h : ~(h.body.len < MinBodyLength)) IN
    [k \in 1..Len(kept) |->
        [provision_ref |-> <<"Art.", kept[k].section>>,
         section |-> kept[k].section,
         content |-> kept[k].body]]

\* The position of the entry with the given key in an insertion-ordered
\* Map, 0 when there is none.
MapIndex(keys, key) ==
    IF \E k \in 1..Len(keys) : keys[k] = key
      THEN CHOOSE k \in 1..Len(keys) : keys[k] = key
      ELSE 0

\* Mutant of KeepProvision: a later duplicate of equal length replaces.
KeepProvision_OnTie(existing, provision) ==
    normalizeWhitespaceLength(provision.content) >= normalizeWhitespaceLength(existing.content)

\* normalizeWhitespace(provision.content).length > normalizeWhitespace(existing.content).length
KeepProvision(existing, provision) ==
    normalizeWhitespaceLength(provision.content) > normalizeWhitespaceLength(existing.content)

\* The for loop of dedupeAndSortProvisions over provisions[i..]: byRef as
\* the sequence of its values in insertion order.
RECURSIVE DedupeFrom(_, _, _)
DedupeFrom(byRef, provisions, i) ==
    IF i > Len(provisions) THEN byRef
    ELSE LET provision == provisions[i]
             at == MapIndex([k \in 1..Len(byRef) |-> byRef[k].provision_ref],
                            provision.provision_ref)
         IN  IF at = 0
               THEN DedupeFrom(Append(byRef, provision), provisions, i + 1)
             ELSE IF KeepProvision(byRef[at], provision)
               THEN DedupeFrom([byRef EXCEPT ![at] = provision], provisions, i + 1)
             ELSE DedupeFrom(byRef, provisions, i + 1)

\* The decimal digits of a number.
RECURSIVE DecimalDigits(_)
DecimalDigits(n) ==
    IF n < 10 THEN <<n>> ELSE Append(DecimalDigits(n \div 10), n % 10)

\* The characters of a section token, each as its collation weight in the
\* Greek locale: the digits 0 to 9 as themselves, a letter, coming after
\* every digit, as 10.
SectionChars(section) ==
    [k \in 1..section.zeros |-> 0] \o DecimalDigits(section.num)
        \o (IF section.suf = 1 THEN <<10>> ELSE <<>>)

\* Number.parseInt(section, 10): the value of the leading digits. A section
\* token starts with a digit, so the result is never NaN.
RECURSIVE ParseDigits(_, _)
ParseDigits(chars, value) ==
    IF chars = <<>> \/ Head(chars) > 9 THEN value
    ELSE ParseDigits(Tail(chars), 10 * value + Head(chars))

parseInt(chars) == ParseDigits(chars, 0)

\* a.localeCompare(b, 'el') on section tokens: negative, zero or positive,
\* character by character, a proper prefix first.
RECURSIVE localeCompare(_, _)
localeCompare(a, b) ==
    IF a = <<>> THEN (IF b = <<>> THEN 0 ELSE -1)
    ELSE IF b = <<>> THEN 1
    ELSE IF Head(a) # Head(b) THEN (IF Head(a) < Head(b) THEN -1 ELSE 1)
    ELSE localeCompare(Tail(a), Tail(b))

\* Mutant of SectionBefore: the tokens are compared as strings only.
SectionBefore_Lexicographic(a, b) ==
    localeCompare(SectionChars(a.section), SectionChars(b.section)) < 0

\* The comparator of the final sort is negative: by Number.parseInt(section)
\* when the numbers differ, else by section.localeCompare.
SectionBefore(a, b) ==
    LET aNum == parseInt(SectionChars(a.section))
        bNum == parseInt(SectionChars(b.section))
    IN  IF aNum # bNum THEN aNum < bNum
        ELSE localeCompare(SectionChars(a.section), SectionChars(b.section)) < 0

\* Array.prototype.sort with that comparator (a stable sort), by insertion.
RECURSIVE SortProvisions(_)
SortProvisions(seq) ==
    IF Len(seq) <= 1 THEN seq
    ELSE LET sorted == SortProvisions(SubSeq(seq, 1, Len(seq) - 1))
             last == seq[Len(seq)]
             before == SelectSeq(sorted, LAMBDA x : ~SectionBefore(last, x))
             after == SelectSeq(sorted, LAMBDA x : SectionBefore(last, x))
         IN  before \o <<last>> \o after

\* Mutant of dedupeAndSortProvisions: the list is sorted and not deduplicated.
dedupeAndSortProvisions_SortOnly(provisions) == SortProvisions(provisions)

dedupeAndSortProvisions(provisions) ==
    SortProvisions(DedupeFrom(<<>>, provisions, 1))

\* Mutant of parseProvisionsFromOfficialText: a text without headings gives
\* one provision 'Art. 0' instead of the empty list.
parseProvisionsFromOfficialText_Fallback(headings) ==
    IF Len(headings) = 0
      THEN << [provision_ref |-> <<"Art.", [num |-> 0, suf |-> 0, zeros |-> 0]>>,
               section |-> [num |-> 0, suf |-> 0, zeros |-> 0],
               content |-> CHOOSE b \in ProvisionBodies : b.tag = "a"] >>
    ELSE dedupeAndSortProvisions(ParsedFrom(headings))

parseProvisionsFromOfficialText(headings) ==
    IF Len(headings) = 0 THEN <<>>
    ELSE dedupeAndSortProvisions(ParsedFrom(headings))

\* Mutant of DefinitionLines: every provision is searched for definitions.
RECURSIVE DefinitionLines_AllProvisions(_, _)
DefinitionLines_AllProvisions(provisions, i) ==
    IF i > Len(provisions) THEN <<>>
    ELSE LET provision == provisions[i]
             lines == SelectSeq(provision.content.lines,
                                LAMBDA l : ~(l.term = "") /\ ~(l.len < MinDefinitionLength))
         IN  [k \in 1..Len(lines) |->
                 [term |-> lines[k].term, definition |-> lines[k].text,
                  source_provision |-> provision.provision_ref]]
             \o DefinitionLines_AllProvisions(provisions, i + 1)

\* The quoted-term lines of the provisions that define, in input order,
\* that pass `if (!term || !definition) continue; if (definition.length < 4) continue`.
RECURSIVE DefinitionLines(_, _)
DefinitionLines(provisions, i) ==
    IF i > Len(provisions) THEN <<>>
    ELSE LET provision == provisions[i]
             lines == IF provision.content.isDefs
                        THEN SelectSeq(provision.content.lines,
                                       LAMBDA l : ~(l.term = "") /\ ~(l.len < MinDefinitionLength))
                        ELSE <<>>
         IN  [k \in 1..Len(lines) |->
                 [term |-> lines[k].term, definition |-> lines[k].text,
                  source_provision |-> provision.provision_ref]]
             \o DefinitionLines(provisions, i + 1)

\* byTerm.set(term.toLocaleLowerCase('el'), {...}): a new key is appended,
\* the value of a key that is present is replaced in place.
MapSet(byTerm, entry) ==
    LET at == MapIndex([k \in 1..Len(byTerm) |-> toLocaleLowerCase(byTerm[k].term)],
                       toLocaleLowerCase(entry.term))
    IN  IF at = 0 THEN Append(byTerm, entry)
        ELSE [byTerm EXCEPT ![at] = entry]

\* The for loops of extractDefinitionsFromProvisions over the matching lines
\* lo..hi in order: the lines up to the middle are set before the others.
\* A Map never shrinks under set; the comparison of the sizes makes TLC
\* evaluate the first half before it descends into the second, which keeps
\* the evaluation of a long article shallow.
RECURSIVE SetAll(_, _, _, _)
SetAll(byTerm, entries, lo, hi) ==
    IF lo > hi THEN byTerm
    ELSE IF lo = hi THEN MapSet(byTerm, entries[lo])
    ELSE LET mid == (lo + hi) \div 2
             head == SetAll(byTerm, entries, lo, mid)
         IN  IF Len(head) < Len(byTerm) THEN head
             ELSE SetAll(head, entries, mid + 1, hi)

\* Mutant of extractDefinitionsFromProvisions: the values are not sliced.
extractDefinitionsFromProvisions_NoCap(provisions) ==
    LET entries == DefinitionLines(provisions, 1) IN
    SetAll(<<>>, entries, 1, Len(entries))

\* Array.from(byTerm.values()).slice(0, 100)
extractDefinitionsFromProvisions(provisions) ==
    LET entries == DefinitionLines(provisions, 1)
        values == SetAll(<<>>, entries, 1, Len(entries))
    IN  SubSeq(values, 1, Min(Len(values), DefinitionCap))

MaxLongHeadings == 2

\* A definitions article of n quoted-term lines with the distinct terms
\* first + 1 .. first + n, written as numerals.
LongBody(n, first) ==
    [len |-> 40 * n, nlen |-> 40 * n, tag |-> "long", isDefs |-> TRUE,
     lines |-> [k \in 1..n |-> DefLine(ToString(first + k), "the entity", 10)]]

\* Texts of long definitions articles numbered 1, 2, ...: 99, 101 or 150
\* lines each, the terms of two articles overlapping or not.
LongTexts ==
    UNION { { [k \in 1..n |-> [section |-> [num |-> k, suf |-> 0, zeros |-> 0], body |-> bodies[k]]] :
              bodies \in [1..n -> { LongBody(m, first) : m \in {99, 101, 150},
                                                        first \in {0, 50} }] } :
            n \in 1..MaxLongHeadings }

PInitLong ==
    /\ p_pc = "text"
    /\ p_headings \in LongTexts
    /\ p_provisions = <<>>
    /\ p_definitions = <<>>

\* Section tokens whose numeric and lexicographic orders differ: "01", "1",
\* "1Α", "2", "10".
OrderSections ==
    { [num |-> 1, suf |-> 0, zeros |-> 1], [num |-> 1, suf |-> 0, zeros |-> 0],
      [num |-> 1, suf |-> 1, zeros |-> 0], [num |-> 2, suf |-> 0, zeros |-> 0],
      [num |-> 10, suf |-> 0, zeros |-> 0] }

\* Texts of at most MaxHeadings headings with those sections.
OrderTexts ==
    UNION { [1..n -> [section : OrderSections,
                      body : { b \in ProvisionBodies : b.tag \in {"short", "c"} }]] :
            n \in 0..MaxHeadings }

PInitOrder ==
    /\ p_pc = "text"
    /\ p_headings \in OrderTexts
    /\ p_provisions = <<>>
    /\ p_definitions = <<>>

PInit ==
    /\ p_pc = "text"
    /\ p_headings \in Texts
    /\ p_provisions = <<>>
    /\ p_definitions = <<>>

PIdle ==
    /\ p_pc = "off"
    /\ p_headings = <<>>
    /\ p_provisions = <<>>
    /\ p_definitions = <<>>

\* const provisions = parseProvisionsFromOfficialText(text, ...)
PParse ==
    /\ p_pc = "text"
    /\ p_provisions' = parseProvisionsFromOfficialText(p_headings)
    /\ p_pc' = "parsed"
    /\ UNCHANGED <<p_headings, p_definitions>>

\* const definitions = extractDefinitionsFromProvisions(provisions)
PDefine ==
    /\ p_pc = "parsed"
    /\ p_definitions' = extractDefinitionsFromProvisions(p_provisions)
    /\ p_pc' = "done"
    /\ UNCHANGED <<p_headings, p_provisions>>

PNext ==
    \/ PParse /\ UNCHANGED notPVars
    \/ PDefine /\ UNCHANGED notPVars

\* ---- document isolation and repeated calls (parser.ts) ----

MaxLines == 3

MaxOtherCalls == 1

\* A line that opens an act: ΝΟΜΟΣ ("law") or ΠΡΟΕΔΡΙΚΟ ΔΙΑΤΑΓΜΑ ("pd"),
\* ΥΠ' ΑΡΙΘ. and the number; caps FALSE when it is written in mixed case
\* (Νόμος υπ' αριθ.).
Opening(act, number, caps) ==
    [kind |-> "open", act |-> act, number |-> number, caps |-> caps]

OpeningLines ==
    { Opening("law", 1, TRUE), Opening("law", 1, FALSE),
      Opening("law", 2, TRUE), Opening("pd", 1, TRUE) }

\* A line that is an article heading, with the body that follows it.
HeadingLines ==
    { [kind |-> "heading", section |-> [num |-> n, suf |-> 0, zeros |-> 0],
       body |-> CHOOSE b \in ProvisionBodies : b.tag = "a"] : n \in {1, 2} }

\* Normalized texts of at most MaxLines lines.
Documents == UNION { [1..n -> OpeningLines \cup HeadingLines] : n \in 0..MaxLines }

\* ParseProvisionOptions; 0 stands for a field that is not given.
ParseOptions == [lawNumber : {0, 1}, legislationCatalogues : {0, 1, 2}]

\* buildStartRegex(options) matches the line: a pattern with the i flag,
\* for the law or the presidential decree of that number.
StartMatch(line, options) ==
    /\ line.kind = "open"
    /\ line.number = options.lawNumber
    /\ line.act = (IF options.legislationCatalogues = 1 THEN "law" ELSE "pd")

\* nextDocRegex matches the line: a pattern without the i flag, followed by
\* any digits.
NextDocMatch(line) == line.kind = "open" /\ line.caps

isolateTargetDocument(text, options) ==
    IF options.lawNumber = 0 \/ options.legislationCatalogues = 0 THEN text
    ELSE IF ~\E k \in 1..Len(text) : StartMatch(text[k], options) THEN text
    ELSE LET startIndex == CHOOSE k \in 1..Len(text) :
                              /\ StartMatch(text[k], options)
                              /\ \A h \in 1..(k - 1) : ~StartMatch(text[h], options)
             after == { k \in (startIndex + 1)..Len(text) : NextDocMatch(text[k]) }
             endIndex == IF after = {} THEN Len(text) + 1
                         ELSE CHOOSE k \in after : \A h \in after : k <= h
         IN  SubSeq(text, startIndex, endIndex - 1)

\* Mutant of HeadingMatch: the pattern is used through exec with the g flag,
\* which starts at lastIndex and moves it.
HeadingMatch_Global(line, lastIndex) ==
    LET matched == line.kind = "heading" /\ lastIndex = 0 IN
    [matched |-> matched, lastIndex |-> IF matched THEN 1 ELSE 0]

\* trimmed.match(ARTICLE_HEADING_LINE_REGEX): the pattern has neither the g
\* nor the y flag, so lastIndex is neither read nor written.
HeadingMatch(line, lastIndex) ==
    [matched |-> line.kind = "heading", lastIndex |-> lastIndex]

\* The for loop of findArticleHeadings over lines[i..].
RECURSIVE FindFrom(_, _, _, _)
FindFrom(lines, i, headings, lastIndex) ==
    IF i > Len(lines) THEN [headings |-> headings, lastIndex |-> lastIndex]
    ELSE LET match == HeadingMatch(lines[i], lastIndex) IN
         FindFrom(lines, i + 1,
                  IF match.matched
                    THEN Append(headings, [section |-> lines[i].section, body |-> lines[i].body])
                    ELSE headings,
                  match.lastIndex)

findArticleHeadings(text, lastIndex) == FindFrom(text, 1, <<>>, lastIndex)

\* parseProvisionsFromOfficialText(text, options) from the normalized text:
\* the scope, the list returned and the state the call leaves.
parseNormalized(text, options, lastIndex) ==
    LET documentScope == isolateTargetDocument(text, options)
        found == findArticleHeadings(documentScope, lastIndex)
    IN  [documentScope |-> documentScope,
         provisions |-> parseProvisionsFromOfficialText(found.headings),
         lastIndex |-> found.lastIndex]

\* What a call gave: the scope it parsed and the list it returned.
CallResult(parsed) ==
    [documentScope |-> parsed.documentScope, provisions |-> parsed.provisions]

NoCallResult == [documentScope |-> <<>>, provisions |-> <<>>]

SInit ==
    /\ s_pc = "start"
    /\ s_text \in Documents
    /\ s_options \in ParseOptions
    /\ s_lastIndex = 0
    /\ s_first = NoCallResult
    /\ s_again = NoCallResult
    /\ s_others = 0

SIdle ==
    /\ s_pc = "off"
    /\ s_text = <<>>
    /\ s_options = [lawNumber |-> 0, legislationCatalogues |-> 0]
    /\ s_lastIndex = 0
    /\ s_first = NoCallResult
    /\ s_again = NoCallResult
    /\ s_others = 0

\* parseProvisionsFromOfficialText(text, options), first call
SFirst ==
    /\ s_pc = "start"
    /\ LET parsed == parseNormalized(s_text, s_options, s_lastIndex) IN
       /\ s_first' = CallResult(parsed)
       /\ s_lastIndex' = parsed.lastIndex
    /\ s_pc' = "called"
    /\ UNCHANGED <<s_text, s_options, s_again, s_others>>

\* A call with another text of at most one line and other options.
SOther ==
    /\ s_pc = "called"
    /\ s_others < MaxOtherCalls
    /\ \E text \in { d \in Documents : Len(d) <= 1 }, options \in ParseOptions :
          s_lastIndex' = parseNormalized(text, options, s_lastIndex).lastIndex
    /\ s_others' = s_others + 1
    /\ UNCHANGED <<s_pc, s_text, s_options, s_first, s_again>>

\* parseProvisionsFromOfficialText(text, options), second call
SAgain ==
    /\ s_pc = "called"
    /\ LET parsed == parseNormalized(s_text, s_options, s_lastIndex) IN
       /\ s_again' = CallResult(parsed)
       /\ s_lastIndex' = parsed.lastIndex
    /\ s_pc' = "again"
    /\ UNCHANGED <<s_text, s_options, s_first, s_others>>

SNext ==
    \/ SFirst /\ UNCHANGED notSVars
    \/ SOther /\ UNCHANGED notSVars
    \/ SAgain /\ UNCHANGED notSVars

\* ---- bodies between article headings (parser.ts) ----

MaxScanLines == 4

\* A line of the document scope: an article heading with the number of its
\* section, a line of running text with its trimmed length, or a line
\* normalizeProvisionBody drops (a page number of three or four digits).
ScanLines ==
    { [kind |-> "heading", num |-> 1, chars |-> 7],
      [kind |-> "heading", num |-> 2, chars |-> 7],
      [kind |-> "text", num |-> 0, chars |-> 20],
      [kind |-> "text", num |-> 0, chars |-> 39],
      [kind |-> "text", num |-> 0, chars |-> 40],
      [kind |-> "pagenumber", num |-> 0, chars |-> 4] }

\* All document scopes of at most MaxScanLines lines.
ScanTexts == UNION { [1..n -> ScanLines] : n \in 0..MaxScanLines }

\* findArticleHeadings: the positions of the heading lines, in text order.
HeadingPositions(lines) ==
    SelectSeq([i \in 1..Len(lines) |-> i], LAMBDA i : lines[i].kind = "heading")

\* documentScope.slice(bodyStart, bodyEnd): the lines after the heading line
\* at positions[k] up to the next heading line, or to the end of the scope.
SliceBody(lines, positions, k) ==
    LET bodyStart == positions[k] + 1
        bodyEnd == IF k < Len(positions) THEN positions[k + 1] ELSE Len(lines) + 1
    IN  [j \in 1..(bodyEnd - bodyStart) |-> bodyStart + j - 1]

\* The length of the given lines joined by newlines.
RECURSIVE JoinedLength(_, _)
JoinedLength(lines, slice) ==
    IF slice = <<>> THEN 0
    ELSE IF Len(slice) = 1 THEN lines[Head(slice)].chars
    ELSE lines[Head(slice)].chars + 1 + JoinedLength(lines, Tail(slice))

\* normalizeProvisionBody: the lines of the slice that are not dropped,
\* joined by newlines; src names the lines the body is made of.
normalizeProvisionBody(lines, slice) ==
    LET kept == SelectSeq(slice, LAMBDA j : lines[j].kind = "text") IN
    [len |-> JoinedLength(lines, kept), nlen |-> JoinedLength(lines, kept),
     tag |-> "scanned", isDefs |-> FALSE, lines |-> <<>>, src |-> kept]

\* The headings of the scope, each with the cleaned body cut out for it.
ScannedHeadings(lines) ==
    LET positions == HeadingPositions(lines) IN
    [k \in 1..Len(positions) |->
        [section |-> [num |-> lines[positions[k]].num, suf |-> 0, zeros |-> 0],
         body |-> normalizeProvisionBody(lines, SliceBody(lines, positions, k))]]

\* The parser is given a document scope as its lines.
PInitScan ==
    /\ p_pc = "raw"
    /\ p_headings = <<>>
    /\ p_provisions = <<>>
    /\ p_definitions = <<>>
    /\ s_pc = "off"
    /\ s_text \in ScanTexts
    /\ s_options = [lawNumber |-> 0, legislationCatalogues |-> 0]
    /\ s_lastIndex = 0
    /\ s_first = NoCallResult
    /\ s_again = NoCallResult
    /\ s_others = 0

\* const headings = findArticleHeadings(documentScope), with the body of
\* each heading as the loop of parseProvisionsFromOfficialText cuts it.
PScan ==
    /\ p_pc = "raw"
    /\ p_headings' = ScannedHeadings(s_text)
    /\ p_pc' = "text"
    /\ UNCHANGED <<p_provisions, p_definitions>>

ScanNext ==
    \/ PScan /\ UNCHANGED notPVars
    \/ PParse /\ UNCHANGED notPVars
    \/ PDefine /\ UNCHANGED notPVars

(***************************************************************************)
(* The country-scope collection, ingest.ts: ingestCountryScope with        *)
(* dedupeCountryScopeRows and sortActs.                                    *)
(***************************************************************************)
MaxYears == 2

\* options.catalogues (parseCatalogueList: a list without repetitions), the
\* number of years fromYear..toYear (at least one), options.maxDocuments
\* (0 stands for null).
KOptions == [catalogues : {<<1>>, <<2, 1>>}, years : 1..MaxYears, maxDocuments : {0, 1}]

\* Rows of the search API: search_ID, a title that tells two rows of one id
\* apart, the issue date.
KRow(id, title, issued) == [search_ID |-> id, title |-> title, issued |-> issued]

\* What searchLegislation resolves to: no row, one row, or two rows of one id.
QueryRows ==
    { <<>>, <<KRow(1, "a", 2)>>, <<KRow(1, "b", 2)>>, <<KRow(2, "a", 1)>>,
      <<KRow(1, "a", 2), KRow(1, "b", 2)>> }

\* The year (counted from fromYear) and the catalogue of the query after q
\* pairs: the loop over the catalogues is the inner one.
KPair(in, q) ==
    [year |-> 1 + (q \div Len(in.catalogues)),
     catalogue |-> in.catalogues[1 + (q % Len(in.catalogues))]]

\* Mutant of dedupeCountryScopeRows: a later row of an id replaces the first.
RECURSIVE dedupeCountryScopeRows_KeepLast(_, _, _)
dedupeCountryScopeRows_KeepLast(bySearchId, rows, i) ==
    IF i > Len(rows) THEN bySearchId
    ELSE LET at == MapIndex([k \in 1..Len(bySearchId) |-> bySearchId[k].row.search_ID],
                            rows[i].row.search_ID)
         IN  IF at = 0
               THEN dedupeCountryScopeRows_KeepLast(Append(bySearchId, rows[i]), rows, i + 1)
               ELSE dedupeCountryScopeRows_KeepLast([bySearchId EXCEPT ![at] = rows[i]], rows, i + 1)

\* dedupeCountryScopeRows: the loop from row i on, bySearchId as the list of
\* the values of the Map in insertion order.
RECURSIVE dedupeCountryScopeRows(_, _, _)
dedupeCountryScopeRows(bySearchId, rows, i) ==
    IF i > Len(rows) THEN bySearchId
    ELSE LET at == MapIndex([k \in 1..Len(bySearchId) |-> bySearchId[k].row.search_ID],
                            rows[i].row.search_ID)
         IN  IF at = 0
               THEN dedupeCountryScopeRows(Append(bySearchId, rows[i]), rows, i + 1)
               ELSE dedupeCountryScopeRows(bySearchId, rows, i + 1)

\* parseSearchResultToCountryScopeAct: the id is made of the catalogue and
\* the search_ID (among other parts of the row), the title is the row's.
parseSearchResultToCountryScopeAct(item) ==
    [id |-> <<item.legislationCatalogue, item.row.search_ID>>,
     title |-> item.row.title, issued_date |-> item.row.issued]

\* The comparator of sortActs is negative: by issued_date, then by id.
ActBefore(a, b) ==
    IF a.issued_date # b.issued_date THEN a.issued_date < b.issued_date
    ELSE \/ a.id[1] < b.id[1]
         \/ a.id[1] = b.id[1] /\ a.id[2] < b.id[2]

\* sortActs: a stable sort of a copy, by insertion.
RECURSIVE sortActs(_)
sortActs(acts) ==
    IF Len(acts) <= 1 THEN acts
    ELSE LET sorted == sortActs(SubSeq(acts, 1, Len(acts) - 1))
             last == acts[Len(acts)]
         IN  SelectSeq(sorted, LAMBDA x : ~ActBefore(last, x)) \o <<last>>
                 \o SelectSeq(sorted, LAMBDA x : ActBefore(last, x))

\* acts.slice(acts.length - options.maxDocuments), when maxDocuments is set
\* and smaller than the number of acts.
SliceActs(acts, maxDocuments) ==
    IF maxDocuments # 0 /\ Len(acts) > maxDocuments
      THEN SubSeq(acts, Len(acts) - maxDocuments + 1, Len(acts))
      ELSE acts

NoSummary ==
    [written |-> FALSE, file |-> <<>>, query_attempts |-> 0, query_errors |-> 0,
     rows_total |-> 0, rows_unique |-> 0, documents_written |-> 0, failed_queries |-> <<>>]

KInit ==
    /\ k_pc = "query"
    /\ k_in \in KOptions
    /\ k_q = 0
    /\ k_collected = <<>>
    /\ k_failed = <<>>
    /\ k_counts = [queryAttempts |-> 0, queryErrors |-> 0]
    /\ k_log = <<>>
    /\ k_out = NoSummary

KIdle ==
    /\ k_pc = "off"
    /\ k_in = [catalogues |-> <<1>>, years |-> 1, maxDocuments |-> 0]
    /\ k_q = 0
    /\ k_collected = <<>>
    /\ k_failed = <<>>
    /\ k_counts = [queryAttempts |-> 0, queryErrors |-> 0]
    /\ k_log = <<>>
    /\ k_out = NoSummary

\* One pass of the inner loop: queryAttempts++, then searchLegislation
\* resolves and its rows are collected, or it throws and the catch block
\* counts and lists the query.
KQuery ==
    /\ k_pc = "query"
    /\ k_q < k_in.years * Len(k_in.catalogues)
    /\ LET pair == KPair(k_in, k_q) IN
       \/ \E rows \in QueryRows :
            /\ k_collected' = k_collected \o
                  [k \in 1..Len(rows) |-> [row |-> rows[k], legislationCatalogue |-> pair.catalogue]]
            /\ k_counts' = [k_counts EXCEPT !.queryAttempts = @ + 1]
            /\ k_log' = Append(k_log, [year |-> pair.year, catalogue |-> pair.catalogue, threw |-> FALSE])
            /\ UNCHANGED k_failed
       \/ /\ k_counts' = [queryAttempts |-> k_counts.queryAttempts + 1,
                           queryErrors |-> k_counts.queryErrors + 1]
          /\ k_failed' = Append(k_failed, [year |-> pair.year, catalogue |-> pair.catalogue])
          /\ k_log' = Append(k_log, [year |-> pair.year, catalogue |-> pair.catalogue, threw |-> TRUE])
          /\ UNCHANGED k_collected
    /\ k_q' = k_q + 1
    /\ UNCHANGED <<k_pc, k_in, k_out>>

\* After the loops: the rows are deduplicated, made into acts, sorted and
\* cut to maxDocuments; the file is written and the summary returned.
KWrite ==
    /\ k_pc = "query"
    /\ k_q = k_in.years * Len(k_in.catalogues)
    /\ LET dedupedRows == dedupeCountryScopeRows(<<>>, k_collected, 1)
           acts == SliceActs(sortActs([k \in 1..Len(dedupedRows) |->
                         parseSearchResultToCountryScopeAct(dedupedRows[k])]),
                             k_in.maxDocuments)
       IN  k_out' = [written |-> TRUE, file |-> acts,
                     query_attempts |-> k_counts.queryAttempts,
                     query_errors |-> k_counts.queryErrors,
                     rows_total |-> Len(k_collected),
                     rows_unique |-> Len(dedupedRows),
                     documents_written |-> Len(acts),
                     failed_queries |-> k_failed]
    /\ k_pc' = "done"
    /\ UNCHANGED <<k_in, k_q, k_collected, k_failed, k_counts, k_log>>

KNext ==
    \/ KQuery /\ UNCHANGED notKVars
    \/ KWrite /\ UNCHANGED notKVars

\* The extractor is not running.
ExIdle ==
    /\ ex_pc = "idle"
    /\ ex_opts = [enableOcr |-> FALSE, maxOcrPages |-> DefaultMaxOcrPages,
                  allowLowQualityFallback |-> FALSE]
    /\ ex_pageCount = 0
    /\ ex_pages = 0
    /\ ex_raw = EmptyText
    /\ ex_cands = <<>>
    /\ ex_warn = <<>>
    /\ ex_calls = {}
    /\ ex_res = NoResult
    /\ ex_tmp = FALSE

InitExtract == ExInit /\ FInit(TRUE) /\ TIdle /\ CIdle /\ AIdle /\ PIdle /\ SIdle /\ KIdle

SpecExtract == InitExtract /\ [][ExNext]_vars

InitFetchSeq == FInit(TRUE) /\ ExIdle /\ TIdle /\ CIdle /\ AIdle /\ PIdle /\ SIdle /\ KIdle

\* The client as the pipeline uses it: every call is awaited.
SpecFetchSeq == InitFetchSeq /\ [][FNext]_vars

InitFetch == FInit(FALSE) /\ ExIdle /\ TIdle /\ CIdle /\ AIdle /\ PIdle /\ SIdle /\ KIdle

InitClient == AInit /\ ExIdle /\ FInit(TRUE) /\ TIdle /\ CIdle /\ PIdle /\ SIdle /\ KIdle

SpecClient == InitClient /\ [][ANext]_vars

InitParse == PInit /\ ExIdle /\ FInit(TRUE) /\ TIdle /\ CIdle /\ AIdle /\ SIdle /\ KIdle

SpecParse == InitParse /\ [][PNext]_vars

InitParseLong == PInitLong /\ ExIdle /\ FInit(TRUE) /\ TIdle /\ CIdle /\ AIdle /\ SIdle /\ KIdle

SpecParseLong == InitParseLong /\ [][PNext]_vars

InitOrder == PInitOrder /\ ExIdle /\ FInit(TRUE) /\ TIdle /\ CIdle /\ AIdle /\ SIdle /\ KIdle

SpecOrder == InitOrder /\ [][PNext]_vars

InitPick == TInitPick /\ ExIdle /\ FInit(TRUE) /\ CIdle /\ AIdle /\ PIdle /\ SIdle /\ KIdle

SpecPick == InitPick /\ [][PickNext]_vars

InitCountry == KInit /\ ExIdle /\ FInit(TRUE) /\ TIdle /\ CIdle /\ AIdle /\ PIdle /\ SIdle

SpecCountry == InitCountry /\ [][KNext]_vars

InitScan == PInitScan /\ ExIdle /\ FInit(TRUE) /\ TIdle /\ CIdle /\ AIdle /\ KIdle

SpecScan == InitScan /\ [][ScanNext]_vars

InitSegment == SInit /\ ExIdle /\ FInit(TRUE) /\ TIdle /\ CIdle /\ AIdle /\ PIdle /\ KIdle

SpecSegment == InitSegment /\ [][SNext]_vars

\* Either orchestrator is run, from an empty output directory.
InitIngest ==
    /\ \/ TInit /\ CIdle
       \/ TIdle /\ CInit
    /\ ExIdle
    /\ FInit(TRUE)
    /\ AIdle
    /\ PIdle
    /\ SIdle
    /\ KIdle

IngestNext ==
    \/ TStart /\ UNCHANGED notTVars
    \/ TIterate /\ UNCHANGED notTVars
    \/ TWriteDone /\ UNCHANGED notTVars
    \/ TFinish /\ UNCHANGED notTVars
    \/ CStart /\ UNCHANGED notCVars
    \/ CSkipExisting /\ UNCHANGED notCVars
    \/ CAttempt /\ UNCHANGED notCVars
    \/ CWriteDone /\ UNCHANGED notCVars
    \/ CFinish /\ UNCHANGED notCVars
    \/ CRerun /\ UNCHANGED notCVars

SpecIngest == InitIngest /\ [][IngestNext]_vars

\* The corpus orchestrator, where the process may be terminated and restarted.
InitCorpus == CInit /\ TIdle /\ ExIdle /\ FInit(TRUE) /\ AIdle /\ PIdle /\ SIdle /\ KIdle

CrashNext ==
    \/ CStart /\ UNCHANGED notCVars
    \/ CSkipExisting /\ UNCHANGED notCVars
    \/ CAttempt /\ UNCHANGED notCVars
    \/ CWriteDone /\ UNCHANGED notCVars
    \/ CFinish /\ UNCHANGED notCVars
    \/ CKill /\ UNCHANGED notCVars
    \/ CRerun /\ UNCHANGED notCVars

SpecCorpusCrash == InitCorpus /\ [][CrashNext]_vars

\* The client under any callers: calls may be made without awaiting.
SpecFetch == InitFetch /\ [][FNext]_vars

(***************************************************************************)
(* Claims about extractTextFromPdfBuffer                                   *)
(***************************************************************************)
\* The usability test as section 4.2 of the specification states it.
UsableAsSpecified(m) ==
    /\ m.charCount >= 1200
    /\ \/ m.articleHeadingCount >= 2 /\ m.greekRatio >= 300
       \/ m.articleHeadingCount >= 8 /\ m.greekRatio >= 200
       \/ m.charCount > 5000 /\ m.greekRatio >= 550

ExDone == ex_pc = "done"

ExToolThrew == ex_res.kind = "error" /\ ex_res.reason = "tool"

ExUsableIdx == { i \in 1..Len(ex_cands) : UsableAsSpecified(ex_cands[i].metrics) }

LaterStrategyCalls == {"recode", "pdftoppm", "tesseract"}

StrategyRank(method) ==
    CASE method = "pdftotext" -> 1
      [] method = "pdftotext_windows1253" -> 2
      [] OTHER -> 3

\* C9: when the normalized native text is usable the call returns it with
\* method pdftotext and neither the recode nor rasterization nor OCR was
\* invoked; in general the result is the first usable strategy in the order
\* native, recode, OCR and no later strategy was attempted.
C9_ShortCircuit ==
    (ExDone /\ ~ExToolThrew /\ ExUsableIdx # {}) =>
        LET first == CHOOSE i \in ExUsableIdx : \A j \in ExUsableIdx : i <= j IN
        /\ ex_res.kind = "ok"
        /\ ex_res.method = ex_cands[first].method
        /\ ex_res.text = ex_cands[first].text
        /\ Len(ex_cands) = first
        /\ \A i, j \in 1..Len(ex_cands) :
              i < j => StrategyRank(ex_cands[i].method) < StrategyRank(ex_cands[j].method)
        /\ first = 1 =>
              /\ ex_res.method = "pdftotext"
              /\ ex_calls \cap LaterStrategyCalls = {}

C9_Witness ==
    /\ ExDone
    /\ ex_opts.enableOcr
    /\ ex_res.kind = "ok"
    /\ ex_res.method = "pdftotext"
    /\ ex_calls = {"pdfinfo", "pdftotext"}

(***************************************************************************)
(* Claims about the source client                                          *)
(***************************************************************************)
\* The event loop runs every timer that is due, time passes, and every HTTP
\* request is answered or fails (fetch settles).
FairSpecFetchSeq ==
    /\ SpecFetchSeq
    /\ WF_vars(Tick /\ UNCHANGED notFVars)
    /\ \A c \in Callers :
          /\ WF_vars(FGatePass(c) /\ UNCHANGED notFVars)
          /\ WF_vars(FRespond(c) /\ UNCHANGED notFVars)
          /\ WF_vars(FRetry(c) /\ UNCHANGED notFVars)

FInFlight == { c \in Callers : f_call[c].pc = "inflight" }

\* C5: any two consecutive outbound HTTP requests, retries included, are at
\* least MIN_DELAY_MS apart, measured from the completion of the previous
\* request to the start of the next.
C5_MinSpacing == f_lastGap >= MIN_DELAY_MS

\* C6: under any interleaving of callers no two outbound requests are in
\* flight at the same time and no two pass the gate less than MIN_DELAY_MS
\* apart.
C6_Serialized ==
    /\ Cardinality(FInFlight) <= 1
    /\ f_gateGap >= MIN_DELAY_MS

BackoffSchedule == <<2000, 4000, 8000>>

C7_CallInv(call) ==
    /\ call.sent <= DefaultMaxRetries + 1
    /\ call.attempt = Len(call.waited) - (IF call.pc = "backoff" THEN 1 ELSE 0)
    /\ call.sent = call.attempt + (IF call.pc \in {"idle", "gateWait"} THEN 0 ELSE 1)
    /\ Len(call.waited) <= Len(BackoffSchedule)
    /\ call.waited = SubSeq(BackoffSchedule, 1, Len(call.waited))
    /\ call.pc = "backoff" => Retryable(call.last)
    /\ (call.pc = "done" /\ call.last # NetErr /\ Retryable(call.last)) =>
          call.sent = DefaultMaxRetries + 1 /\ call.res = "HTTP error"
    /\ call.res = "data" => ResponseOk(call.last)

\* C7: a 429 or 5xx response is retried after a backoff of 2 s, 4 s, 8 s; a
\* call makes at most maxRetries + 1 = 4 HTTP attempts; when they are
\* exhausted the call fails with an error and returns no data; and every
\* call terminates.
C7_RetryBounded ==
    /\ [](\A c \in Callers : C7_CallInv(f_call[c]))
    /\ \A c \in Callers : FActive(c) ~> (f_call[c].pc = "done")

C7_Witness ==
    \E c \in Callers :
        /\ f_call[c].pc = "done"
        /\ f_call[c].sent = 4
        /\ f_call[c].waited = <<2000, 4000, 8000>>
        /\ f_call[c].last = 500
        /\ f_call[c].res = "HTTP error"


(***************************************************************************)
(* Properties of the two orchestrators.                                    *)
(***************************************************************************)
FairSpecIngest == SpecIngest /\ WF_vars(IngestNext)

NoDuplicates(seq) == \A j, k \in 1..Len(seq) : seq[j] = seq[k] => j = k

CSecondRunDone == c_run >= 2 /\ c_pc = "done" /\ ~c_in.force

\* C2 as stated: a second run without force over the same inputs writes no
\* act record and counts every candidate in skipped_existing.
C2_SecondRunSkipsAll ==
    CSecondRunDone =>
        /\ c_progress.written = 0
        /\ c_progress.skipped_existing = NDocs

\* C2, amended: a second run without force over the same inputs writes no
\* act record; it skips exactly the candidates whose record an earlier run
\* wrote, so skipped_existing is the total minus the candidates that failed
\* before; those are attempted again and fail again.
C2_SecondRunSkipsWritten ==
    CSecondRunDone =>
        /\ c_progress.written = 0
        /\ c_progress.skipped_existing = c_prev.skipped_existing + c_prev.written
        /\ c_progress.skipped_existing = NDocs - c_prev.failed
        /\ c_progress.attempted = c_prev.failed
        /\ c_progress.failed = c_prev.failed

C2_Witness ==
    /\ CSecondRunDone
    /\ c_run = 2
    /\ c_prev.failed > 0
    /\ c_prev.written > 0
    /\ c_progress.skipped_existing = c_prev.written

\* C3 as stated: within one run of either orchestrator no PDF URL is
\* fetched and extracted more than once.
C3_FetchedOncePerUrl ==
    /\ NoDuplicates(t_fetchLog)
    /\ NoDuplicates(c_fetchLog)

TErrorReasons == (ExtractOutcomes \ {"ok"}) \cup {"API error"}

CErrorReasons == EnrichOutcomes \ {"articles", "no headings"}

TIds(seq) == { seq[k].id : k \in 1..Len(seq) }

\* Every target the loop has left is in exactly one of fetched, skipped;
\* a thrown error is in skipped with the target's id and its message.
C4_TargetsInv ==
    t_pc \in {"loop", "writing", "done", "aborted"} =>
        /\ Len(t_fetched) + Len(t_skipped) = t_i
        /\ TIds(t_fetched) \cup TIds(t_skipped) = 1..t_i
        /\ t_pc = "done" => t_i = NTargets
        /\ (t_pc \in {"loop", "done"} /\ t_last.i > 0 /\ t_last.outcome \in TErrorReasons) =>
              /\ t_i = t_last.i
              /\ Len(t_skipped) > 0
              /\ t_skipped[Len(t_skipped)] = [id |-> t_last.i, reason |-> t_last.outcome]

\* Every candidate the loop has left was skipped, written or failed, once;
\* the failures are the candidates whose enrichment throws, with id and reason.
C4_CorpusInv ==
    c_pc \in {"loop", "writing", "done", "aborted"} =>
        /\ c_progress.skipped_existing + c_progress.written + c_progress.failed = c_i
        /\ c_progress.attempted =
              c_progress.written + c_progress.failed + (IF c_pc = "writing" THEN 1 ELSE 0)
        /\ c_progress.failed = Len(c_failures)
        /\ NoDuplicates(c_failures)
        /\ { c_failures[k] : k \in 1..Len(c_failures) } =
              { [id |-> id, url |-> CandidateAt(id).url, reason |-> c_in.enrich[id]] :
                  id \in { d \in 1..c_i : /\ ~CSkips(CandidateAt(d))
                                          /\ d \notin c_in.targets
                                          /\ c_in.enrich[d] \in CErrorReasons } }
        /\ c_pc = "done" => c_i = NDocs

\* C4: in both orchestrators an error thrown for one act is caught and
\* recorded with the act's id and a reason, every act of the list is
\* processed exactly once, and every run that starts reaches its report.
C4_FailureIsolation ==
    /\ [](C4_TargetsInv /\ C4_CorpusInv)
    /\ (t_pc = "start") ~> (t_pc = "done")
    /\ (c_pc = "start") ~> (c_pc = "done")

C4_Witness ==
    /\ t_pc = "done"
    /\ Len(t_skipped) > 0
    /\ t_skipped[1].id = 1
    /\ t_skipped[1].reason \in TErrorReasons
    /\ Len(t_fetched) = NTargets - 1

\* C8 as stated: after the process was terminated and started again without
\* force, no act record in the output directory is partially written.
C8_NoPartialRecord ==
    CSecondRunDone => \A id \in 1..NDocs : c_out[id].state # "partial"

TLastTarget == TargetAt(t_last.i)

TLastHasMatch ==
    \E k \in 1..Len(t_last.rows) :
        /\ t_last.rows[k].lawNo = TLastTarget.lawNumber
        /\ t_last.rows[k].year = TLastTarget.year

\* No record was written under the id in this run: its file is as it was
\* in SEED_DIR before the run.
TNotWritten(id) == t_seed[id] \in {NoFile, OldFile(id)}

TLastSkippedNoResult ==
    /\ t_last.outcome = NoResultReason
    /\ t_pc \in {"loop", "done"}
    /\ t_i = t_last.i
    /\ Len(t_skipped) > 0
    /\ t_skipped[Len(t_skipped)] = [id |-> t_last.i, reason |-> NoResultReason]
    /\ t_last.i \notin TIds(t_fetched)
    /\ TNotWritten(t_last.i)

\* C10 as stated: when no row of the search matches the target's law number
\* and year, the act is skipped with the 'no official result' reason, is not
\* retried, and no record is written under its id.
C10_NoMatchSkipped ==
    (t_last.i > 0 /\ ~t_last.searchFailed /\ ~TLastHasMatch) => TLastSkippedNoResult

\* C10, amended: when the search returns no row at all, the act is skipped
\* with the 'no official result' reason, is not retried, and no record is
\* written under its id; when it returns rows, a row is always taken (the
\* first row if none carries the law number) and the act is not skipped
\* for that reason.
C10_EmptySearchSkipped ==
    (t_last.i > 0 /\ ~t_last.searchFailed) =>
        /\ t_last.rows = <<>> => TLastSkippedNoResult
        /\ t_last.rows # <<>> =>
              /\ t_last.best # <<>>
              /\ t_last.outcome # NoResultReason
              /\ (\A k \in 1..Len(t_last.rows) : t_last.rows[k].lawNo # TLastTarget.lawNumber)
                    => t_last.best = <<t_last.rows[1]>>

C10_Witness ==
    /\ t_last.i > 0
    /\ ~t_last.searchFailed
    /\ t_last.rows = <<>>
    /\ TLastSkippedNoResult

(***************************************************************************)
(* Properties of what the source client returns and throws.                *)
(***************************************************************************)
ApiFns == {"searchLegislation", "getDocumentEntityById"}

ADoneApi == a_call.pc = "done" /\ a_call.fn \in ApiFns

\* The three conditions on the final response: the body parses as JSON, the
\* envelope's status is exactly "ok", the inner data string parses as JSON.
ADecodes ==
    /\ a_call.status # NetErr
    /\ a_call.body.json = "object"
    /\ a_call.body.status = "ok"
    /\ a_call.body.data # "invalid"

\* C11: searchLegislation and getDocumentEntityById return rows only when
\* the body parses as JSON, the envelope status is exactly "ok" and the inner
\* data parses; in every other case they throw and return no decoded data.
C11_RowsOnlyWhenDecoded ==
    ADoneApi =>
        /\ a_out.kind \in {"rows", "error"}
        /\ a_out.kind = "rows" => ADecodes
        /\ ~ADecodes => a_out.kind = "error" /\ a_out.data = "none"

C11_Witness ==
    /\ ADoneApi
    /\ a_out.kind = "rows"
    /\ a_out.data = "rows"
    /\ a_call.body.status = "ok"

ANonRetryable == a_call.status \in 400..499 /\ a_call.status # 429

\* C12 as stated: a 4xx response other than 429 makes the call fail at once,
\* with no further attempt and no backoff wait for it, and the error carries
\* the HTTP status and at most the first 200 characters of the body.
C12_NonRetryableFailsOnce ==
    (a_call.pc = "done" /\ ANonRetryable) =>
        /\ a_call.sent = a_call.attempt + 1
        /\ Len(a_call.waited) = a_call.attempt
        /\ a_call.attempt = 0 => a_call.sent = 1 /\ a_call.waited = <<>>
        /\ a_out.kind = "error"
        /\ a_out.type = "HTTP"
        /\ a_out.status = a_call.status
        /\ a_out.chars <= ErrorBodyChars

(***************************************************************************)
(* Further properties of extractTextFromPdfBuffer.                         *)
(***************************************************************************)
ExInResult(w) == \E k \in 1..Len(ex_res.warnings) : ex_res.warnings[k] = w

ExWarned(w) == \E k \in 1..Len(ex_warn) : ex_warn[k] = w

\* C13: a metrics record is usable iff charCount >= 1200 and one of the three
\* heading / Greek-ratio alternatives holds; below 1200 characters no record
\* is usable.  Stated of every candidate the extractor has assessed.
C13_UsableIff ==
    \A i \in 1..Len(ex_cands) :
        LET m == ex_cands[i].metrics IN
        /\ isTextUsable(m) <=> UsableAsSpecified(m)
        /\ m.charCount < 1200 => ~isTextUsable(m)
        /\ (isTextUsable(m) /\ ExDone /\ ~ExToolThrew) => ex_res.kind = "ok"

C13_Witness ==
    /\ ex_pc = "recode"
    /\ ex_cands[1].metrics.charCount = 800
    /\ ex_cands[1].metrics.articleHeadingCount = 8
    /\ ex_cands[1].metrics.greekRatio >= 550

ExOverPageLimit == ex_opts.enableOcr /\ ex_pageCount > ex_opts.maxOcrPages

ExOcrCalls == {"pdftoppm", "tesseract"}

ScoreAsSpecified(m) ==
    m.charCount * (20 * m.greekRatio + 1000) + m.articleHeadingCount * 4000 * 20000
      - 20000 * m.mojibakeChars

ExWithText == { i \in 1..Len(ex_cands) : ex_cands[i].text.len > 0 }

ExFellBack == ExDone /\ ex_res.kind = "ok" /\ ExInResult("low_quality_fallback")

\* C15: the low-quality fallback is taken only when allowLowQualityFallback
\* is set and no attempted strategy was usable; it returns a candidate with
\* non-empty text of maximal score, with that candidate's method and
\* metrics, and the low-confidence warning is added to the result.
C15_FallbackBestScore ==
    /\ ExFellBack =>
          /\ ex_opts.allowLowQualityFallback
          /\ ExUsableIdx = {}
          /\ \E i \in ExWithText :
                /\ ex_res.text = ex_cands[i].text
                /\ ex_res.method = ex_cands[i].method
                /\ ex_res.metrics = ex_cands[i].metrics
                /\ \A j \in ExWithText :
                      ScoreAsSpecified(ex_cands[i].metrics) >= ScoreAsSpecified(ex_cands[j].metrics)
          /\ ex_res.warnings[Len(ex_res.warnings)] = "low_quality_fallback"
    /\ (ExDone /\ ex_res.kind = "ok" /\ ExUsableIdx = {}) => ExFellBack

C15_Witness ==
    /\ ExFellBack
    /\ Len(ex_cands) = 2
    /\ ex_cands[1].text.len > 0
    /\ ex_res.method = ex_cands[2].method
    /\ ScoreAsSpecified(ex_cands[2].metrics) > ScoreAsSpecified(ex_cands[1].metrics)

\* More than 250 extended-Latin characters in the raw native text and fewer
\* Greek characters than a quarter of that count.
ExRawIsMojibake ==
    /\ ex_raw.latinExt > 250
    /\ 4 * (ex_raw.greek + ex_raw.noise) < ex_raw.latinExt

ExRecoded == \E i \in 1..Len(ex_cands) : ex_cands[i].method = "pdftotext_windows1253"

\* C16: the windows-1253 recode is attempted only when the raw native text
\* has more than 250 extended-Latin characters and fewer Greek characters
\* than a quarter of that count; for text without extended-Latin characters
\* it is never triggered and no result has method pdftotext_windows1253.
C16_RecodeOnlyOnMojibake ==
    /\ ("recode" \in ex_calls \/ ExRecoded) => ExRawIsMojibake
    /\ (ex_res.kind = "ok" /\ ex_res.method = "pdftotext_windows1253") => ExRawIsMojibake
    /\ (ex_pc \notin {"idle", "native"} /\ ex_raw.latinExt = 0) =>
          /\ "recode" \notin ex_calls
          /\ ~ExRecoded

C16_Witness ==
    /\ ExDone
    /\ ex_res.kind = "ok"
    /\ ex_res.method = "pdftotext_windows1253"
    /\ ex_raw.latinExt = 251
    /\ ex_raw.greek = 0

\* C17: on every path on which the call returns, method is one of the four
\* strategies, it names the strategy that produced the text, and
\* metrics.charCount is the length of the text.
C17_ResultConsistent ==
    (ExDone /\ ex_res.kind = "ok") =>
        /\ ex_res.method \in Methods
        /\ ex_res.metrics.charCount = ex_res.text.len
        /\ ex_res.metrics = assessTextQuality(ex_res.text)
        /\ \E i \in 1..Len(ex_cands) :
              /\ ex_cands[i].method = ex_res.method
              /\ ex_cands[i].text = ex_res.text
        /\ ex_res.method = "pdftotext" => ex_res.text = normalizeText(ex_raw)
        /\ ex_res.method = "pdftotext_windows1253" =>
              /\ "recode" \in ex_calls
              /\ ex_res.text = normalizeText(decodeWindows1253(ex_raw))
        /\ ex_res.method \in {"ocr_tesseract_cli", "ocr_tesseract_js"} =>
              /\ "tesseract" \in ex_calls
              /\ ex_res.text = ex_cands[Len(ex_cands)].text

C17_Witness ==
    /\ ExDone
    /\ ex_res.kind = "ok"
    /\ ex_res.method = "ocr_tesseract_js"
    /\ Len(ex_cands) = 3
    /\ ex_res.text # ex_cands[1].text
    /\ ex_res.text # ex_cands[2].text

(***************************************************************************)
(* Properties of segmentation and of the definitions.                      *)
(***************************************************************************)
PParsed == p_pc \in {"parsed", "done"}

\* The headings that become provisions: those with a body of 40 characters or more.
PKept == { k \in 1..Len(p_headings) : p_headings[k].body.len >= MinBodyLength }

PSame(section) == { k \in PKept : p_headings[k].section = section }

\* C18: in the list parseProvisionsFromOfficialText returns no two
\* provisions have the same section number, nor the same provision_ref.
C18_UniqueSections ==
    PParsed =>
        /\ \A j, k \in 1..Len(p_provisions) :
              (\/ p_provisions[j].section = p_provisions[k].section
               \/ p_provisions[j].provision_ref = p_provisions[k].provision_ref) => j = k
        /\ { p_provisions[k].section : k \in 1..Len(p_provisions) }
              = { p_headings[k].section : k \in PKept }

C18_Witness ==
    /\ PParsed
    /\ Len(p_headings) = 3
    /\ PKept = {1, 2, 3}
    /\ p_headings[1].section = p_headings[3].section
    /\ p_headings[1].section # p_headings[2].section
    /\ p_headings[1].body # p_headings[3].body
    /\ Len(p_provisions) = 2

\* The first of the headings of a section whose normalized content is longest.
PFirstLongest(section) ==
    CHOOSE k \in PSame(section) :
        /\ \A j \in PSame(section) : p_headings[k].body.nlen >= p_headings[j].body.nlen
        /\ \A j \in PSame(section) :
              p_headings[j].body.nlen = p_headings[k].body.nlen => k <= j

\* C19: of several headings with the same section number the provision kept
\* is the one whose whitespace-normalized content is longest, and of those
\* of equal greatest length the first.
C19_LongestKept ==
    PParsed =>
        \A k \in 1..Len(p_provisions) :
            LET section == p_provisions[k].section IN
            /\ PSame(section) # {}
            /\ \A j \in PSame(section) :
                  p_provisions[k].content.nlen >= p_headings[j].body.nlen
            /\ p_provisions[k].content = p_headings[PFirstLongest(section)].body

C19_Witness ==
    /\ PParsed
    /\ Len(p_headings) = 2
    /\ p_headings[1].section = p_headings[2].section
    /\ p_headings[1].body.tag = "a"
    /\ p_headings[2].body.tag = "b"
    /\ Len(p_provisions) = 1
    /\ p_provisions[1].content.tag = "a"

\* C20 as stated: the definitions are deduplicated by case-folded term and
\* each entry carries term, definition and source provision of the first
\* line, in input order, that defines the term.
C20_FirstDefinitionWins ==
    p_pc = "done" =>
        LET lines == DefinitionLines(p_provisions, 1) IN
        /\ \A j, k \in 1..Len(p_definitions) :
              toLocaleLowerCase(p_definitions[j].term) = toLocaleLowerCase(p_definitions[k].term)
                 => j = k
        /\ \A k \in 1..Len(p_definitions) :
              \E i \in 1..Len(lines) :
                 /\ p_definitions[k] = lines[i]
                 /\ \A h \in 1..(i - 1) :
                       toLocaleLowerCase(lines[h].term) # toLocaleLowerCase(lines[i].term)

\* The case-folded terms of the lines in the order of their first occurrence.
RECURSIVE FirstKeys(_, _, _, _)
FirstKeys(keys, lines, lo, hi) ==
    IF lo > hi THEN keys
    ELSE IF lo = hi
      THEN LET key == toLocaleLowerCase(lines[lo].term) IN
           IF MapIndex(keys, key) = 0 THEN Append(keys, key) ELSE keys
    ELSE LET mid == (lo + hi) \div 2
             head == FirstKeys(keys, lines, lo, mid)
         IN  IF Len(head) < Len(keys) THEN head
             ELSE FirstKeys(head, lines, mid + 1, hi)

PDefinedKeys == [k \in 1..Len(p_definitions) |-> toLocaleLowerCase(p_definitions[k].term)]

\* C21: extractDefinitionsFromProvisions returns at most 100 definitions, no
\* two with the same case-folded term: the first 100 distinct terms in input
\* order, so 150 lines of distinct terms give exactly the first 100.
C21_CappedDistinct ==
    p_pc = "done" =>
        LET lines == DefinitionLines(p_provisions, 1)
            keys == FirstKeys(<<>>, lines, 1, Len(lines))
        IN  /\ Len(p_definitions) <= 100
            /\ \A j, k \in 1..Len(PDefinedKeys) : PDefinedKeys[j] = PDefinedKeys[k] => j = k
            /\ PDefinedKeys = SubSeq(keys, 1, Min(Len(keys), 100))
            /\ (Len(lines) = 150 /\ Len(keys) = 150) =>
                  p_definitions = SubSeq([k \in 1..Len(lines) |-> lines[k]], 1, 100)

C21_Witness ==
    /\ p_pc = "done"
    /\ Len(p_headings) = 1
    /\ Len(p_headings[1].body.lines) = 150
    /\ Len(p_definitions) = 100
    /\ p_definitions[100].term = "100"

\* Both fields of the target identity are given.
STargetGiven == s_options.lawNumber # 0 /\ s_options.legislationCatalogues # 0

\* The lines of s_text that open the target act.
STargetOpenings == { k \in 1..Len(s_text) : StartMatch(s_text[k], s_options) }

\* C22: when a target law number and catalogue are given and the act's
\* opening line is found, the scope of the call starts at that line and ends
\* before the next act-opening line that belongs to a different act, or at
\* the end of the text; without a target identity the scope is the whole text.
C22_ScopeAsSpecified ==
    s_pc \in {"called", "again"} =>
        IF ~STargetGiven THEN s_first.documentScope = s_text
        ELSE IF STargetOpenings = {} THEN TRUE
        ELSE LET start == CHOOSE k \in STargetOpenings : \A h \in STargetOpenings : k <= h
                 others == { k \in (start + 1)..Len(s_text) :
                               NextDocMatch(s_text[k]) /\ ~StartMatch(s_text[k], s_options) }
                 end == IF others = {} THEN Len(s_text) + 1
                        ELSE CHOOSE k \in others : \A h \in others : k <= h
             IN  s_first.documentScope = SubSeq(s_text, start, end - 1)

\* The first call has returned.
SReturned == s_pc \in {"called", "again"}

\* The scope of the first call has no article heading.
SScopeWithoutHeading ==
    \A k \in 1..Len(s_first.documentScope) : s_first.documentScope[k].kind # "heading"

\* C23: a call of parseProvisionsFromOfficialText whose scoped text contains
\* no article heading returns, and what it returns is the empty list.
C23_EmptyWhenNoHeading ==
    (SReturned /\ SScopeWithoutHeading) => s_first.provisions = <<>>

C23_Witness ==
    /\ s_pc = "called"
    /\ \E k \in 1..Len(s_text) : s_text[k].kind = "heading"
    /\ Len(s_first.documentScope) > 0
    /\ SScopeWithoutHeading
    /\ s_first.provisions = <<>>

\* C24: two calls of parseProvisionsFromOfficialText with the same text and
\* options return the same ordered list from the same scope, whatever calls
\* were made in between.
C24_SameResult == s_pc = "again" => s_again = s_first

C24_Witness ==
    /\ s_pc = "again"
    /\ s_others > 0
    /\ Len(s_first.provisions) > 0
    /\ Len(s_first.documentScope) < Len(s_text)
    /\ s_again = s_first

\* The positions of c_log whose candidate ended in the given state.
CLogIn(state) == { k \in 1..Len(c_log) : c_log[k].state = state }

\* The corpus run is in or past its loop.
CRunning == c_pc \in {"loop", "writing", "done"}

C25_Inv ==
    CRunning =>
        /\ (c_pc = "loop" /\ c_i = 0) =>
              c_existingFiles = { id \in 1..NDocs : c_out[id] # NoRecord }
        /\ \A k \in 1..Len(c_log) :
              /\ c_log[k].id = CandidateAt(k).id
              /\ c_log[k].state = "skipped" <=>
                    (~c_in.force /\ c_log[k].id \in c_existingFiles)
        /\ c_progress.skipped_existing = Cardinality(CLogIn("skipped"))
        /\ c_in.force => c_progress.skipped_existing = 0
        /\ (c_in.force /\ c_pc = "done") => c_progress.attempted = NDocs

\* The step that skips a candidate fetches nothing and writes no record.
C25_Step ==
    (Len(c_log') > Len(c_log) /\ c_log'[Len(c_log')].state = "skipped") =>
        /\ UNCHANGED <<c_out, c_fetchLog>>
        /\ c_pc' = "loop"

\* C25: in the corpus orchestrator a candidate is skipped, without fetch,
\* extraction or write and counted in skipped_existing, exactly when force
\* is off and a record for its id existed when the run started; with force
\* on skipped_existing stays 0 and every candidate is attempted.
C25_SkipIffExisting == []C25_Inv /\ [][C25_Step]_vars

C25_Witness ==
    /\ c_pc = "done"
    /\ c_run = 2
    /\ ~c_in.force
    /\ CLogIn("skipped") # {}
    /\ CLogIn("failed") # {}
    /\ c_progress.skipped_existing + c_progress.attempted = NDocs

C26_CorpusInv ==
    c_pc \in {"loop", "done"} =>
        /\ Len(c_log) = c_i
        /\ \A k \in 1..Len(c_log) : c_log[k].state \in {"written", "skipped", "failed"}
        /\ c_progress.skipped_existing = Cardinality(CLogIn("skipped"))
        /\ c_progress.written = Cardinality(CLogIn("written"))
        /\ c_progress.failed = Cardinality(CLogIn("failed"))
        /\ c_progress.skipped_existing + c_progress.attempted = c_i
        /\ c_progress.attempted = c_progress.written + c_progress.failed
        /\ Len(c_failures) = c_progress.failed
        /\ c_pc = "done" =>
              /\ c_progress.candidate_documents = NDocs
              /\ c_progress.skipped_existing + c_progress.written + c_progress.failed
                    = c_progress.candidate_documents

C26_TargetsInv ==
    t_pc \in {"loop", "done"} =>
        /\ Len(t_fetched) + Len(t_skipped) = t_i
        /\ TIds(t_fetched) \cap TIds(t_skipped) = {}
        /\ TIds(t_fetched) \cup TIds(t_skipped) = 1..t_i
        /\ t_pc = "done" => t_i = NTargets

\* C26: every act of a run ends in exactly one of written, skipped, failed;
\* in the corpus orchestrator, after each iteration, skipped_existing +
\* attempted is the number of candidates iterated, attempted = written +
\* failed, the failure list has `failed` entries, and at completion
\* skipped_existing + written + failed = candidate_documents.
C26_OneTerminalState == C26_CorpusInv /\ C26_TargetsInv

C26_Witness ==
    /\ c_pc = "done"
    /\ CLogIn("skipped") # {}
    /\ CLogIn("written") # {}
    /\ CLogIn("failed") # {}

\* The progress report as the run holds it in memory.
CReport == [totals |-> c_progress, failures |-> c_failures]

\* A step of the corpus run: when it ends an iteration at a multiple of
\* statusEvery, or ends the run, the progress file holds the report as it
\* is after the step; whenever the file changes it holds that report, whose
\* counters and failure list cover every candidate iterated so far.
C27_Step ==
    /\ (c_i' = c_i + 1 /\ c_i' % c_in.statusEvery = 0) => c_progressFile' = CReport'
    /\ (c_pc # "done" /\ c_pc' = "done") => c_progressFile' = CReport'
    /\ c_progressFile' # c_progressFile =>
          /\ c_progressFile' = CReport'
          /\ c_progressFile'.totals.skipped_existing + c_progressFile'.totals.written
                + c_progressFile'.totals.failed = c_i'
          /\ Len(c_progressFile'.failures) = c_progressFile'.totals.failed
          /\ \A k \in 1..Len(c_progressFile'.failures) :
                LET failure == c_progressFile'.failures[k] IN
                /\ failure.id \in 1..c_i'
                /\ failure.url = CandidateAt(failure.id).url
                /\ failure.reason = c_in.enrich[failure.id]

\* C27: in the corpus orchestrator the progress snapshot is rewritten
\* whenever the number of candidates iterated reaches a multiple of
\* statusEvery and once more at completion, and every snapshot written holds
\* the counters and the failure list of all candidates iterated up to then.
C27_SnapshotCurrent == [][C27_Step]_vars

C27_Witness ==
    /\ c_pc = "loop"
    /\ c_in.statusEvery = 2
    /\ c_i = 2
    /\ c_i < NDocs
    /\ Len(c_failures) > 0
    /\ c_progress.skipped_existing > 0
    /\ c_progressFile = CReport

\* The candidates whose iteration of this run went past the skip test.
CAttemptedIds ==
    { c_log[k].id : k \in CLogIn("written") \cup CLogIn("failed") }
    \cup (IF c_pc = "writing" THEN {CandidateAt(c_i + 1).id} ELSE {})

\* C28: in the corpus orchestrator every attempted candidate whose id is in
\* the target overrides gets the override record written and no PDF is
\* fetched or extracted for it; enrichFromPdf runs only for ids without an
\* override.
C28_OverridePrecedence ==
    CRunning =>
        /\ \A k \in 1..Len(c_log) :
              c_log[k].id \in c_in.targets =>
                 /\ c_log[k].state \in {"skipped", "written"}
                 /\ c_log[k].state = "written" =>
                       /\ c_log[k].from = "override"
                       /\ c_out[c_log[k].id] =
                             [state |-> "complete", from |-> "override",
                              kind |-> "articles", provisions |-> OverrideProvisions]
        /\ Len(c_fetchLog) = Cardinality(CAttemptedIds \ c_in.targets)
        /\ \A k \in 1..Len(c_fetchLog) :
              \E id \in CAttemptedIds \ c_in.targets : c_fetchLog[k] = CandidateAt(id).url
        /\ c_progress.from_target_override = Cardinality(CAttemptedIds \cap c_in.targets)
        /\ c_progress.from_pdf_extraction =
              Cardinality({ k \in CLogIn("written") : c_log[k].from = "pdf" })
              + (IF c_pc = "writing" /\ c_pending.from = "pdf" THEN 1 ELSE 0)

C28_Witness ==
    /\ c_pc = "done"
    /\ c_in.targets = {1}
    /\ c_in.enrich[1] = "HTTP error"
    /\ c_log[1].state = "written"
    /\ c_out[1].from = "override"
    /\ Len(c_fetchLog) = NDocs - 1

NoHeadingsReason == "No article headings parsed"

\* The whole-document provision of a record written from ExtractedText.
FulltextProvision ==
    [provision_ref |-> <<"Art.", "0">>, section |-> "0", content |-> Trim(ExtractedText)]

\* C29: zero parsed provisions is fatal to the act in target mode: the target
\* is in skipped with a 'No article headings parsed' reason and no record is
\* written; in corpus mode the act is written with the single provision
\* 'Art. 0' of section '0' holding the trimmed extracted text, so every
\* record written from PDF extraction in corpus mode has a provision.
C29_ZeroProvisions ==
    /\ (t_pc \in {"loop", "done"} /\ t_last.i > 0 /\ t_last.outcome = NoHeadingsReason) =>
          /\ t_i = t_last.i
          /\ Len(t_skipped) > 0
          /\ t_skipped[Len(t_skipped)] = [id |-> t_last.i, reason |-> NoHeadingsReason]
          /\ t_last.i \notin TIds(t_fetched)
          /\ TNotWritten(t_last.i)
    /\ CRunning =>
          /\ \A k \in CLogIn("written") :
                (c_log[k].from = "pdf" /\ c_in.enrich[c_log[k].id] = "no headings") =>
                   /\ c_out[c_log[k].id].provisions = <<FulltextProvision>>
                   /\ c_out[c_log[k].id].kind = "fulltext"
          /\ \A id \in 1..NDocs :
                (c_out[id].state # "none" /\ c_out[id].from = "pdf") =>
                   Len(c_out[id].provisions) >= 1
          /\ c_progress.with_fulltext_fallback_provision =
                Cardinality({ k \in CLogIn("written") :
                                c_out[c_log[k].id].provisions = <<FulltextProvision>> })
                + (IF c_pc = "writing" /\ c_pending.kind = "fulltext" THEN 1 ELSE 0)

C29_Witness ==
    /\ c_pc = "done"
    /\ \E k \in CLogIn("written") :
          /\ c_in.enrich[c_log[k].id] = "no headings"
          /\ c_out[c_log[k].id].provisions = <<FulltextProvision>>
          /\ c_out[c_log[k].id].state = "complete"

QualityReason == "PDF text quality too low"

\* The last iteration of ingestTargets pushed its target to skipped.
TLastSkipped ==
    /\ t_pc \in {"loop", "done"}
    /\ t_last.i > 0
    /\ t_i = t_last.i
    /\ Len(t_skipped) > 0
    /\ t_skipped[Len(t_skipped)].id = t_last.i

TLastReason == t_skipped[Len(t_skipped)].reason

\* No entry of skipped or of failures has an empty reason.
ReasonsNonEmpty ==
    /\ \A k \in 1..Len(t_skipped) : t_skipped[k].reason # ""
    /\ \A k \in 1..Len(c_failures) : c_failures[k].reason # ""

\* C30 as stated: every entry of the skipped and failure lists has a
\* non-empty reason, and the reason tells the three causes apart: it is 'No
\* official result...' exactly when the source has no record of the act, 'PDF
\* text quality too low...' exactly when the extraction failed on quality,
\* 'No article headings parsed...' exactly when no heading was parsed.
C30_ReasonTellsCause ==
    /\ ReasonsNonEmpty
    /\ (TLastSkipped /\ ~t_last.searchFailed) =>
          /\ TLastReason = NoResultReason <=> ~TLastHasMatch
          /\ TLastReason = QualityReason <=> (TLastHasMatch /\ t_last.outcome = QualityReason)
          /\ TLastReason = NoHeadingsReason <=> (TLastHasMatch /\ t_last.outcome = NoHeadingsReason)

\* C30, amended: every entry has a non-empty reason; the reason is 'No
\* official result...' exactly when the search returned no row at all, and
\* it is the quality or the no-headings message exactly when the extraction
\* or the segmentation of the PDF taken failed in that way, whether or not
\* the row taken matches the act.
C30_ReasonTellsBranch ==
    /\ ReasonsNonEmpty
    /\ TLastSkipped =>
          /\ TLastReason = NoResultReason <=> (~t_last.searchFailed /\ t_last.rows = <<>>)
          /\ TLastReason = QualityReason <=> t_last.outcome = QualityReason
          /\ TLastReason = NoHeadingsReason <=> t_last.outcome = NoHeadingsReason
          /\ Cardinality({NoResultReason, QualityReason, NoHeadingsReason}) = 3

C30_Witness ==
    /\ TLastSkipped
    /\ ~t_last.searchFailed
    /\ t_last.rows # <<>>
    /\ ~TLastHasMatch
    /\ TLastReason = QualityReason

\* ---- C31 ----

\* The text lines of s_text after the heading line i and before the next
\* heading line.
STextAfter(i) ==
    { j \in (i + 1)..Len(s_text) :
        /\ s_text[j].kind = "text"
        /\ \A h \in (i + 1)..j : s_text[h].kind # "heading" }

\* The length of the text lines at the positions of S joined by newlines.
RECURSIVE SJoined(_)
SJoined(S) ==
    IF S = {} THEN 0
    ELSE LET j == CHOOSE x \in S : TRUE
         IN  s_text[j].chars + (IF S = {j} THEN 0 ELSE 1) + SJoined(S \ {j})

SHeadingLines == { i \in 1..Len(s_text) : s_text[i].kind = "heading" }

SSource(provision) == { provision.content.src[x] : x \in DOMAIN provision.content.src }

\* C31: every returned provision has a cleaned body of at least 40
\* characters made of exactly the text between the end of one heading line
\* of its section and the next heading line (or the end of the scope); a
\* heading whose cleaned body is shorter yields no provision, and no
\* provision holds text of another heading's span.
C31_BodyBetweenHeadings ==
    p_pc \in {"parsed", "done"} =>
        /\ \A k \in 1..Len(p_provisions) :
              /\ p_provisions[k].content.len >= 40
              /\ \E i \in SHeadingLines :
                    /\ s_text[i].num = p_provisions[k].section.num
                    /\ SSource(p_provisions[k]) = STextAfter(i)
                    /\ p_provisions[k].content.len = SJoined(STextAfter(i))
        /\ \A i \in SHeadingLines :
              SJoined(STextAfter(i)) < 40 =>
                  \A k \in 1..Len(p_provisions) :
                      SSource(p_provisions[k]) \cap STextAfter(i) = {}

\* A heading with a short body is followed by a heading whose body is
\* returned alone.
C31_Witness ==
    /\ p_pc = "parsed"
    /\ Len(p_provisions) = 1
    /\ \E i, j \in SHeadingLines :
          /\ i < j
          /\ STextAfter(i) # {}
          /\ SJoined(STextAfter(i)) < 40
          /\ SSource(p_provisions[1]) = STextAfter(j)

\* ---- C32 ----

\* The parser was given a text with the sections of OrderSections.
PSectionsOf(provisions) == [k \in 1..Len(provisions) |-> provisions[k].section]

\* The leading integer of a section token.
PNumber(section) == section.num

\* Greek-locale order of two tokens of the same number: "01" before "1"
\* before "1Α".
PTokenBefore(a, b) ==
    \/ a.zeros > b.zeros
    \/ a.zeros = b.zeros /\ a.suf < b.suf

\* The rearrangements of the headings of the text.
PRearranged ==
    { [k \in 1..Len(p_headings) |-> p_headings[f[k]]] :
        f \in { g \in [1..Len(p_headings) -> 1..Len(p_headings)] :
                  \A i, j \in 1..Len(p_headings) : i # j => g[i] # g[j] } }

\* C32: the returned list is ordered by non-decreasing leading integer of
\* the section token, tokens of the same number by Greek-locale comparison,
\* and every rearrangement of the headings gives the same order of sections.
C32_OrderedBySection ==
    p_pc \in {"parsed", "done"} =>
        /\ \A i, j \in 1..Len(p_provisions) :
              i < j =>
                 /\ PNumber(p_provisions[i].section) <= PNumber(p_provisions[j].section)
                 /\ PNumber(p_provisions[i].section) = PNumber(p_provisions[j].section)
                       => PTokenBefore(p_provisions[i].section, p_provisions[j].section)
        /\ \A headings \in PRearranged :
              PSectionsOf(parseProvisionsFromOfficialText(headings)) = PSectionsOf(p_provisions)

\* Headings "10", "1Α", "1" in that order are returned as "1", "1Α", "10".
C32_Witness ==
    /\ p_pc = "parsed"
    /\ Len(p_headings) = 3
    /\ PSectionsOf(p_headings) = << [num |-> 10, suf |-> 0, zeros |-> 0],
                                    [num |-> 1, suf |-> 1, zeros |-> 0],
                                    [num |-> 1, suf |-> 0, zeros |-> 0] >>
    /\ PSectionsOf(p_provisions) = << [num |-> 1, suf |-> 0, zeros |-> 0],
                                      [num |-> 1, suf |-> 1, zeros |-> 0],
                                      [num |-> 10, suf |-> 0, zeros |-> 0] >>

\* ---- C33 ----

\* The provisions of the input whose title or first 200 characters name
\* definitions.
PCandidates == { k \in 1..Len(p_provisions) : p_provisions[k].content.isDefs }

\* The definition was taken from a line of the provision at k.
PTakenFrom(definition, k) ==
    /\ definition.source_provision = p_provisions[k].provision_ref
    /\ \E h \in 1..Len(p_provisions[k].content.lines) :
          LET line == p_provisions[k].content.lines[h] IN
          /\ line.term = definition.term
          /\ line.text = definition.definition
          /\ line.len >= 4

\* C33: every returned definition has a non-empty term, a text of at least
\* 4 characters, and is taken from a definitions-candidate provision of the
\* input, whose reference is its source_provision; provisions that are not
\* candidates give no definition.
C33_FromCandidatesOnly ==
    p_pc = "done" =>
        \A j \in 1..Len(p_definitions) :
            /\ p_definitions[j].term # ""
            /\ \E k \in PCandidates : PTakenFrom(p_definitions[j], k)
            /\ \A k \in 1..Len(p_provisions) :
                  p_definitions[j].source_provision = p_provisions[k].provision_ref
                      => k \in PCandidates

\* The input has a provision with a quoted term that is no candidate, and
\* candidates with a term of blanks and with a text of 3 characters;
\* definitions are returned.
C33_Witness ==
    /\ p_pc = "done"
    /\ Len(p_definitions) > 0
    /\ \E k \in 1..Len(p_provisions) :
          k \notin PCandidates /\ Len(p_provisions[k].content.lines) > 0
    /\ \E k \in PCandidates :
          \E h \in 1..Len(p_provisions[k].content.lines) :
              p_provisions[k].content.lines[h].term = ""
    /\ \E k \in PCandidates :
          \E h \in 1..Len(p_provisions[k].content.lines) :
              p_provisions[k].content.lines[h].len < 4

\* ---- C34 ----

\* The targets whose record file is written.
TWritten == { id \in 1..NTargets : t_seed[id].state = "complete" }

\* C34: every record written holds the provisions and definitions segmented
\* with the law number of its own target, also when the extraction came from
\* the cache filled by another target. (Violated: the cache holds the
\* provisions segmented for the target that filled it.)
C34_SegmentedForOwnTarget ==
    \A id \in TWritten : t_seed[id].segLaw = TargetAt(id).lawNumber

\* ---- C35 ----

\* The write of the record of the target at id begins: ingestAct has
\* returned ok, from a fresh extraction with provisions or from the cache.
TWriteBegins(id) ==
    /\ t_pc = "loop" /\ t_pc' = "writing"
    /\ id = t_i + 1
    /\ t_last'.i = id
    /\ t_last'.best # <<>>
    /\ t_last'.outcome \in {"ok", "cached"}

\* The write ends: the file is the new record and nothing else.
TWriteEnds(id) ==
    /\ t_pc = "writing" /\ t_pc' = "loop"
    /\ id = t_i + 1
    /\ t_seed'[id].state = "complete"
    /\ t_seed'[id].url = buildFekPdfUrl(t_last.best[1])
    /\ t_seed'[id].segLaw \in { TargetAt(k).lawNumber : k \in 1..id }

C35_Step ==
    /\ \A id \in 1..NTargets :
          t_seed'[id] # t_seed[id] => TWriteBegins(id) \/ TWriteEnds(id)
    /\ Len(t_skipped') > Len(t_skipped) => t_seed' = t_seed

TPickStrict ==
    { k \in 1..Len(t_last.rows) :
        /\ t_last.rows[k].lawNo = TLastTarget.lawNumber
        /\ t_last.rows[k].year = TLastTarget.year }

TPickByNumber ==
    { k \in 1..Len(t_last.rows) : t_last.rows[k].lawNo = TLastTarget.lawNumber }

\* The result is the row at the least position of the set.
TPickedFirst(kept) ==
    \E k \in kept : (\A j \in kept : k <= j) /\ t_last.best = <<t_last.rows[k]>>

\* C36: pickBestSearchResult returns null only for the empty list; else the
\* first row matching number and year, else the first row matching the
\* number, else the first row; the result is a row of the list.
C36_BestRow ==
    t_pc = "picked" =>
        /\ (t_last.best = <<>>) <=> (t_last.rows = <<>>)
        /\ t_last.rows # <<>> =>
              /\ \E k \in 1..Len(t_last.rows) : t_last.best = <<t_last.rows[k]>>
              /\ IF TPickStrict # {} THEN TPickedFirst(TPickStrict)
                 ELSE IF TPickByNumber # {} THEN TPickedFirst(TPickByNumber)
                 ELSE t_last.best = <<t_last.rows[1]>>

\* A list whose first row is of another act, followed by two different rows
\* of the number in other years: the first of these two is returned.
C36_Witness ==
    /\ t_pc = "picked"
    /\ Len(t_last.rows) = 3
    /\ TPickStrict = {}
    /\ TPickByNumber = {2, 3}
    /\ t_last.rows[2] # t_last.rows[3]
    /\ t_last.best = <<t_last.rows[2]>>

\* ---- C37 ----

\* C37: with OCR enabled the OCR stage is skipped exactly when the reported
\* page count exceeds maxOcrPages; a failed introspection reports 0, and
\* then the stage is not skipped and the pages are rasterized, whatever the
\* number of pages of the document.
C37_GatedOnReportedCount ==
    /\ ex_pc # "idle" => ex_pageCount \in {0, ex_pages}
    /\ ExWarned("ocr_skipped_pages") =>
          /\ ex_pageCount > ex_opts.maxOcrPages
          /\ "pdftoppm" \notin ex_calls
    /\ (ex_pc = "fallback" /\ ex_opts.enableOcr /\ ex_pageCount <= ex_opts.maxOcrPages) =>
          /\ ~ExWarned("ocr_skipped_pages")
          /\ "pdftoppm" \in ex_calls
    /\ (ex_pc = "fallback" /\ ex_opts.enableOcr /\ ex_pageCount = 0) =>
          "pdftoppm" \in ex_calls

\* A document of more pages than the limit whose page count could not be
\* read: the pages were rasterized and recognised.
C37_Witness ==
    /\ ex_pc = "fallback"
    /\ ex_opts.enableOcr
    /\ ex_pages > ex_opts.maxOcrPages
    /\ ex_pageCount = 0
    /\ "pdftoppm" \in ex_calls
    /\ "tesseract" \in ex_calls

\* ---- C38 ----

\* The call is between the creation of the temporary directory and its exit.
ExRunning == ex_pc \in {"native", "recode", "ocr", "fallback"}

\* C38: the temporary directory exists while the extraction runs and is
\* removed when the call is left, by a return of a usable result, by the
\* fallback return, by the error of a tool or by the quality error.
C38_TmpRemovedOnExit ==
    /\ ExRunning => ex_tmp
    /\ ExDone =>
          /\ ~ex_tmp
          /\ ex_res.kind \in {"ok", "error"}
          /\ ex_res.kind = "error" => ex_res.reason \in {"tool", "PDF text quality too low"}

\* The call was left by the error of a tool of the OCR stage, after the
\* native text was written off, and the directory is gone.
C38_Witness ==
    /\ ExDone
    /\ ExToolThrew
    /\ "pdftoppm" \in ex_calls
    /\ Len(ex_cands) > 0
    /\ ~ex_tmp

\* ---- C39 ----

\* The position of the first collected row of the search_ID.
KFirstRow(id) ==
    CHOOSE k \in 1..Len(k_collected) :
        /\ k_collected[k].row.search_ID = id
        /\ \A j \in 1..(k - 1) : k_collected[j].row.search_ID # id

KCollectedIds == { k_collected[k].row.search_ID : k \in 1..Len(k_collected) }

\* The record was made from the given collected row.
KMadeFrom(act, item) ==
    /\ act.id = <<item.legislationCatalogue, item.row.search_ID>>
    /\ act.title = item.row.title

\* C39: the file holds at most one record per search_ID, made from the
\* first row collected for the id; rows_unique <= rows_total and
\* documents_written <= rows_unique; every query of the year/catalogue
\* pairs was attempted, and exactly the queries that threw are counted in
\* query_errors and listed in failed_queries.
C39_CountryScopeSummary ==
    /\ k_pc = "query" => k_counts.queryAttempts = k_q /\ Len(k_log) = k_q
    /\ k_pc = "done" =>
          /\ \A i, j \in 1..Len(k_out.file) :
                i # j => k_out.file[i].id[2] # k_out.file[j].id[2]
          /\ \A i \in 1..Len(k_out.file) :
                /\ k_out.file[i].id[2] \in KCollectedIds
                /\ KMadeFrom(k_out.file[i], k_collected[KFirstRow(k_out.file[i].id[2])])
          /\ k_out.rows_total = Len(k_collected)
          /\ k_out.rows_unique = Cardinality(KCollectedIds)
          /\ k_out.rows_unique <= k_out.rows_total
          /\ k_out.documents_written = Len(k_out.file)
          /\ k_out.documents_written <= k_out.rows_unique
          /\ k_out.query_attempts = k_in.years * Len(k_in.catalogues)
          /\ k_out.query_attempts = Len(k_log)
          /\ \A y \in 1..k_in.years :
                \A c \in 1..Len(k_in.catalogues) :
                    \E q \in 1..Len(k_log) :
                        k_log[q].year = y /\ k_log[q].catalogue = k_in.catalogues[c]
          /\ k_out.query_errors = Cardinality({ q \in 1..Len(k_log) : k_log[q].threw })
          /\ Len(k_out.failed_queries) = k_out.query_errors
          /\ \A q \in 1..Len(k_log) :
                k_log[q].threw <=>
                    \E f \in 1..Len(k_out.failed_queries) :
                        /\ k_out.failed_queries[f].year = k_log[q].year
                        /\ k_out.failed_queries[f].catalogue = k_log[q].catalogue

\* The first query threw, later queries returned three rows of one id under
\* two catalogues, and one record was written from the first of them.
C39_Witness ==
    /\ k_pc = "done"
    /\ k_log[1].threw
    /\ k_out.query_attempts = 4
    /\ k_out.query_errors = 1
    /\ k_out.rows_total = 3
    /\ k_out.rows_unique = 1
    /\ k_out.documents_written = 1
    /\ \E i, j \in 1..Len(k_collected) :
          /\ k_collected[i].legislationCatalogue # k_collected[j].legislationCatalogue
          /\ k_collected[i].row.title # k_collected[j].row.title

====
